---- MODULE Spec2Model ----
(***************************************************************************)
(* Model of the Karting Central help assistant (src/unnamed/part_000,      *)
(* lines 1-697): remote knowledge base with conditional refresh, chunk     *)
(* extraction, embedding index, in-memory conversation sessions and the    *)
(* chat route with its dialogue policy.                                    *)
(*                                                                         *)
(* Every await of the program is a suspension point: an async function is  *)
(* cut into one action per stretch of code between two awaits of real I/O  *)
(* (fetch, Embed, Generate).  Time is counted in units of thirty minutes.  *)
(***************************************************************************)
EXTENDS Integers, Sequences, FiniteSets, TLC

VARIABLES
    KB,            \* let KB: the live snapshot (KBNull is JavaScript null)
    DOCS,          \* let DOCS: the chunk set
    VECTORS,       \* let VECTORS: the vector index
    etag,          \* let etag
    lastModified,  \* let lastModified
    calls,         \* in-flight fetchKB calls, one record per call slot
    last,          \* how the fetchKB call that settled last ended
    nLoads,        \* number of fetchKB calls started so far
    SESS,          \* const SESS: session id -> reference of a session object
    heap,          \* the session objects, by reference
    now,           \* Date.now()
    reqs,          \* in-flight chat requests, one record per request slot
    nReqs,         \* number of chat requests started so far
    env            \* the bounds and input sets of this behaviour

vars == <<KB, DOCS, VECTORS, etag, lastModified, calls, last, nLoads,
          SESS, heap, now, reqs, nReqs, env>>

kbVars == <<KB, DOCS, VECTORS, etag, lastModified>>
loadVars == <<calls, last, nLoads>>
sessVars == <<SESS, heap>>
chatVars == <<reqs, nReqs>>

-----------------------------------------------------------------------------
(* Bounds of the model *)

MaxLoads == 2          \* fetchKB calls started in one behaviour of Spec
MaxReqs == 1           \* chat requests started in one behaviour of Spec
MaxSyncLoads == 2      \* fetchKB calls started in one behaviour of SpecLoad
MaxRefreshLoads == 1   \* fetchKB calls started in one behaviour of SpecRefresh
MaxRefreshReqs == 1    \* chat requests started in one behaviour of SpecRefresh
MaxHistReqs == 2       \* chat requests started in one behaviour of SpecHist
MaxIdentReqs == 2      \* chat requests started in one behaviour of SpecIdent
MaxBootLoads == 1      \* fetchKB calls started in one behaviour of SpecBoot
MaxBootReqs == 1       \* chat requests started in one behaviour of SpecBoot
MaxReplyReqs == 2      \* chat requests started in one behaviour of SpecReply
MaxAdminLoads == 2     \* reload requests in one behaviour of SpecAdmin
MaxLiveLoads == 3      \* fetchKB calls started in one behaviour of SpecLive
MaxLiveFails == 2      \* calls started before the source and Embed recover
MaxExtractLoads == 1   \* fetchKB calls started in one behaviour of SpecExtract
MaxExtractReqs == 1    \* chat requests started in one behaviour of SpecExtract
MaxSwitchReqs == 2     \* chat requests started in one behaviour of SpecSwitch
MaxValidReqs == 2      \* chat requests started in one behaviour of SpecValid
MaxSessReqs == 2       \* chat requests started in one behaviour of SpecSess
MaxTime == 2           \* clock ticks in one behaviour of SpecSess

Loaders == {1, 2}        \* fetchKB calls that can be in flight together
Reqs == {"r1", "r2"}     \* chat requests that can be in flight together

-----------------------------------------------------------------------------
(* Program constants *)

SESS_TTL_MS == 1       \* 30 minutes, in units of thirty minutes
SESS_MAX_TURNS == 16
RETRIEVE_K == 5

-----------------------------------------------------------------------------
(* Knowledge payloads: what res.json() can yield.  A payload is described  *)
(* by the properties of the document that the code reads.                  *)

NoTag == "null"

KBNull ==
    [json |-> "null", ver |-> 0, tag |-> "t-null", site |-> FALSE,
     tracks |-> <<>>, f1 |-> FALSE, equipment |-> FALSE,
     hints |-> <<>>, hintsIterable |-> TRUE]

\* the document {}
KBEmpty ==
    [json |-> "obj", ver |-> 0, tag |-> "t-empty", site |-> FALSE,
     tracks |-> <<>>, f1 |-> FALSE, equipment |-> FALSE,
     hints |-> <<>>, hintsIterable |-> TRUE]

\* a complete document with both venues
KBA ==
    [json |-> "obj", ver |-> 1, tag |-> "t-a", site |-> TRUE,
     tracks |-> <<"gillingham", "mile_end">>, f1 |-> TRUE, equipment |-> TRUE,
     hints |-> <<"h1">>, hintsIterable |-> TRUE]

\* a later complete document with one venue
KBB ==
    [json |-> "obj", ver |-> 2, tag |-> "t-b", site |-> TRUE,
     tracks |-> <<"gillingham">>, f1 |-> FALSE, equipment |-> FALSE,
     hints |-> <<"h1", "h2">>, hintsIterable |-> TRUE]

\* a document whose fast_answers is a truthy non-iterable value
KBBadHints ==
    [json |-> "obj", ver |-> 3, tag |-> "t-bad", site |-> TRUE,
     tracks |-> <<"gillingham">>, f1 |-> FALSE, equipment |-> TRUE,
     hints |-> <<>>, hintsIterable |-> FALSE]

\* a complete document whose second venue has a dollar sign for a name (a
\* venue's name is one token of the venue listing)
KBDollar ==
    [json |-> "obj", ver |-> 4, tag |-> "t-d", site |-> TRUE,
     tracks |-> <<"gillingham", "$">>, f1 |-> FALSE, equipment |-> TRUE,
     hints |-> <<>>, hintsIterable |-> TRUE]

\* a complete document that lists one venue twice and one hint topic twice
KBRepeat ==
    [json |-> "obj", ver |-> 5, tag |-> "t-r", site |-> TRUE,
     tracks |-> <<"gillingham", "gillingham">>, f1 |-> TRUE, equipment |-> TRUE,
     hints |-> <<"h1", "h1">>, hintsIterable |-> TRUE]

\* a complete document that lists no venue
KBNoVenues ==
    [json |-> "obj", ver |-> 6, tag |-> "t-n", site |-> TRUE,
     tracks |-> <<>>, f1 |-> FALSE, equipment |-> TRUE,
     hints |-> <<"h1">>, hintsIterable |-> TRUE]

Payloads == {KBNull, KBEmpty, KBA, KBB, KBBadHints}

\* the payloads the specification calls well-formed
WellFormed(kb) == kb.json = "obj" /\ kb.site /\ kb.hintsIterable

-----------------------------------------------------------------------------
(* Chunk extraction *)

Text(k, v) == [k |-> k, v |-> v]
Chunk(id, text, url) == [id |-> id, text |-> text, url |-> url]

\* kb.site?.urls?.<name>
Url(kb, name) == IF kb.site THEN [u |-> name, v |-> kb.ver]
                 ELSE [u |-> "undefined", v |-> 0]

\* the chunks pushed for one venue t
TrackChunks(kb, t) ==
    <<Chunk("track_" \o t, Text("track_" \o t, kb.ver), Url(kb, "home"))>>
    \o (IF t = "mile_end"
        THEN <<Chunk("mile_end_ticket_rules", Text("mile_end_ticket_rules", 0),
                     Url(kb, "book_experience")),
               Chunk("mile_end_sessions", Text("mile_end_sessions", 0),
                     Url(kb, "book_experience"))>>
        ELSE <<>>)
    \o (IF t = "gillingham" /\ kb.f1
        THEN <<Chunk("gillingham_f1_sim", Text("gillingham_f1_sim", 0),
                     Url(kb, "home"))>>
        ELSE <<>>)

RECURSIVE AllTrackChunks(_, _)
AllTrackChunks(kb, ts) ==
    IF ts = <<>> THEN <<>>
    ELSE TrackChunks(kb, Head(ts)) \o AllTrackChunks(kb, Tail(ts))

HintChunks(kb) ==
    [i \in 1..Len(kb.hints) |->
        Chunk("hint_" \o kb.hints[i], Text("hint_" \o kb.hints[i], kb.ver),
              Url(kb, "home"))]

\* flattenDocsFromKB throws (fast_answers is not iterable)
FlattenThrows(kb) == ~kb.hintsIterable

\* an extractor that reads the module-level KB instead of its argument
flattenDocsOfLiveKB(kb) ==
    <<Chunk("opening", Text("opening", KB.ver), Url(KB, "home"))>>
    \o (IF KB.tracks # <<>>
        THEN <<Chunk("tracks_overview", Text("tracks_overview", KB.ver),
                     Url(KB, "home"))>>
             \o AllTrackChunks(KB, KB.tracks)
        ELSE <<>>)
    \o (IF KB.equipment
        THEN <<Chunk("equipment", Text("equipment", KB.ver), Url(KB, "safety"))>>
        ELSE <<>>)
    \o <<Chunk("deals", Text("deals", 0), Url(KB, "book_tickets")),
         Chunk("promos", Text("promos", 0), Url(KB, "terms"))>>
    \o HintChunks(KB)

\* const d = []; ...; return d;
flattenDocsFromKB(kb) ==
    <<Chunk("opening", Text("opening", kb.ver), Url(kb, "home"))>>
    \o (IF kb.tracks # <<>>
        THEN <<Chunk("tracks_overview", Text("tracks_overview", kb.ver),
                     Url(kb, "home"))>>
             \o AllTrackChunks(kb, kb.tracks)
        ELSE <<>>)
    \o (IF kb.equipment
        THEN <<Chunk("equipment", Text("equipment", kb.ver), Url(kb, "safety"))>>
        ELSE <<>>)
    \o <<Chunk("deals", Text("deals", 0), Url(kb, "book_tickets")),
         Chunk("promos", Text("promos", 0), Url(kb, "terms"))>>
    \o HintChunks(kb)

-----------------------------------------------------------------------------
(* The Embed provider and the index *)

\* Embed(text): the provider is a function of the text
EmbedOf(t) ==
    CASE t.k = "opening" -> <<1, t.v>>
      [] t.k = "tracks_overview" -> <<2, 1>>
      [] t.k = "track_gillingham" -> <<1, 0>>
      [] t.k = "track_mile_end" -> <<0, 1>>
      [] t.k = "mile_end_ticket_rules" -> <<0, 2>>
      [] t.k = "mile_end_sessions" -> <<1, 1>>
      [] t.k = "gillingham_f1_sim" -> <<2, 0>>
      [] t.k = "equipment" -> <<0 - 1, 1>>
      [] t.k = "deals" -> <<0, 0>>
      [] t.k = "promos" -> <<0 - 1, 0>>
      [] OTHER -> <<t.v, 0 - 1>>

\* DOCS.map((d) => d.text)
TextsOf(docs) == [i \in 1..Len(docs) |-> docs[i].text]

\* resp.data of one batched embeddings.create call
EmbedBatch(input) == [i \in 1..Len(input) |-> EmbedOf(input[i])]

\* resp.data.map((e, i) => ({id: DOCS[i].id, embedding: e.embedding, meta: DOCS[i]}))
\* reading DOCS[i] throws when DOCS has fewer elements than resp.data
MapThrows(data, docs) == Len(docs) < Len(data)

BuildIndex(data, docs) ==
    [i \in 1..Len(data) |->
        [id |-> docs[i].id, embedding |-> data[i], meta |-> docs[i]]]

\* the index a complete rebuild of snapshot kb produces
IndexOf(kb) ==
    BuildIndex(EmbedBatch(TextsOf(flattenDocsFromKB(kb))), flattenDocsFromKB(kb))

-----------------------------------------------------------------------------
(* fetchKB and rebuildEmbeddings *)

NoSnapshot == [KB |-> KBNull, DOCS |-> <<>>, VECTORS |-> <<>>]

IdleCall ==
    [pc |-> "idle", by |-> "internal", force |-> FALSE, inm |-> NoTag, ims |-> NoTag,
     body |-> KBNull, input |-> <<>>, embeds |-> 0,
     pre |-> NoSnapshot, sole |-> TRUE]

\* the outcome of the fetchKB call that settled last
\* (status: the HTTP status of the source's reply; result: what the call returned)
NoOutcome ==
    [call |-> 0, status |-> 0, result |-> "none", error |-> "none", body |-> KBNull]

Outcome(l, status, result, error, body) ==
    [call |-> l, status |-> status, result |-> result, error |-> error, body |-> body]

Snapshot == [KB |-> KB, DOCS |-> DOCS, VECTORS |-> VECTORS]

\* res.headers.get(name) || old
HeaderOr(sent, value, old) == IF sent THEN value ELSE old

\* the stored token sent whether or not the call is forced
CondHeaderAlways(force, token) == token

\* the precondition headers of a call
CondHeader(force, token) == IF force THEN NoTag ELSE token

\* fetchKB(force) up to `await fetch(KB_URL, {headers})`, called by the boot
\* code or a timer (by = "internal") or by the reload route on behalf of a
\* request (by: what the request carries as credential)
FetchKBCall(l, force, by) ==
    /\ calls[l].pc = "idle"
    /\ \A o \in Loaders : o < l => calls[o].pc # "idle"
    /\ nLoads < env.loads
    /\ nLoads' = nLoads + 1
    /\ calls' = [c \in Loaders |->
         IF c = l
         THEN [IdleCall EXCEPT
                 !.pc = "fetching",
                 !.by = by,
                 !.force = force,
                 !.inm = CondHeader(force, etag),
                 !.ims = CondHeader(force, lastModified),
                 !.pre = Snapshot,
                 !.sole = \A o \in Loaders \ {l} : calls[o].pc = "idle"]
         ELSE IF calls[c].pc = "idle" THEN calls[c]
         ELSE [calls[c] EXCEPT !.sole = FALSE]]
    /\ UNCHANGED <<kbVars, last, sessVars, now, chatVars, env>>

\* warmup and the refresh timer
FetchKBStart(l, force) == FetchKBCall(l, force, "internal")

\* what a request to the reload route can carry as credential
Credentials == {"valid", "invalid", "missing"}

\* app.post("/kb-reload"): const changed = await fetchKB(true)
KbReload(l, cred) == FetchKBCall(l, TRUE, cred)

\* fetchKB without its 304 test: the reply falls through to `if (!res.ok) throw`
FetchKBNotModifiedFallsThrough(l) ==
    /\ calls[l].pc = "fetching"
    /\ calls[l].inm # NoTag \/ calls[l].ims # NoTag
    /\ calls' = [calls EXCEPT ![l] = IdleCall]
    /\ last' = Outcome(l, 304, "failed", "status", KBNull)
    /\ UNCHANGED <<kbVars, nLoads, sessVars, now, chatVars, env>>

\* if (res.status === 304) return false;
\* (the source answers 304 only to a request that carried a precondition)
FetchKBNotModified(l) ==
    /\ calls[l].pc = "fetching"
    /\ calls[l].inm # NoTag \/ calls[l].ims # NoTag
    /\ calls' = [calls EXCEPT ![l] = IdleCall]
    /\ last' = Outcome(l, 304, "unchanged", "none", KBNull)
    /\ UNCHANGED <<kbVars, nLoads, sessVars, now, chatVars, env>>

\* if (!res.ok) throw ...   or   await res.json() rejects
FetchKBRejects(l, why) ==
    /\ calls[l].pc = "fetching"
    /\ calls' = [calls EXCEPT ![l] = IdleCall]
    /\ last' = Outcome(l, IF why = "status" THEN 500 ELSE 200, "failed", why, KBNull)
    /\ UNCHANGED <<kbVars, nLoads, sessVars, now, chatVars, env>>

\* const json = await res.json(); KB = json; etag = ...; lastModified = ...;
\* then rebuildEmbeddings() up to its `await openai.embeddings.create`
FetchKBBody(l, json, hasEtag, hasLastMod) ==
    /\ calls[l].pc = "fetching"
    /\ KB' = json
    /\ etag' = HeaderOr(hasEtag, json.tag, etag)
    /\ lastModified' = HeaderOr(hasLastMod, json.tag, lastModified)
    /\ IF json.json = "null"
       THEN \* if (!KB) return;  and fetchKB returns true
            /\ DOCS' = DOCS
            /\ calls' = [calls EXCEPT ![l] = IdleCall]
            /\ last' = Outcome(l, 200, "changed", "none", json)
       ELSE IF FlattenThrows(json)
       THEN /\ DOCS' = DOCS
            /\ calls' = [calls EXCEPT ![l] = IdleCall]
            /\ last' = Outcome(l, 200, "failed", "flatten", json)
       ELSE /\ DOCS' = flattenDocsFromKB(json)
            /\ calls' = [calls EXCEPT ![l].pc = "embedding", ![l].body = json,
                                      ![l].input = TextsOf(flattenDocsFromKB(json)),
                                      ![l].embeds = calls[l].embeds + 1]
            /\ last' = last
    /\ UNCHANGED <<VECTORS, nLoads, sessVars, now, chatVars, env>>

\* a rebuild that embeds chunk by chunk and pushes each entry as it arrives
RebuildEmbedOneByOne(l) ==
    LET k == calls[l].embeds
    IN  /\ calls[l].pc = "embedding"
        /\ IF Len(DOCS) < k
           THEN /\ VECTORS' = VECTORS
                /\ calls' = [calls EXCEPT ![l] = IdleCall]
                /\ last' = Outcome(l, 200, "failed", "map", calls[l].body)
           ELSE /\ VECTORS' = (IF k = 1 THEN <<>> ELSE VECTORS)
                        \o <<[id |-> DOCS[k].id,
                               embedding |-> EmbedOf(calls[l].input[k]),
                               meta |-> DOCS[k]]>>
                /\ IF k = Len(calls[l].input)
                   THEN /\ calls' = [calls EXCEPT ![l] = IdleCall]
                        /\ last' = Outcome(l, 200, "changed", "none", calls[l].body)
                   ELSE /\ calls' = [calls EXCEPT ![l].embeds = k + 1]
                        /\ last' = last
        /\ UNCHANGED <<KB, DOCS, etag, lastModified, nLoads, sessVars, now,
                       chatVars, env>>

\* the Embed call of rebuildEmbeddings resolves: VECTORS = resp.data.map(...)
RebuildEmbedOk(l) ==
    /\ calls[l].pc = "embedding"
    /\ IF MapThrows(EmbedBatch(calls[l].input), DOCS)
       THEN /\ VECTORS' = VECTORS
            /\ last' = Outcome(l, 200, "failed", "map", calls[l].body)
       ELSE /\ VECTORS' = BuildIndex(EmbedBatch(calls[l].input), DOCS)
            /\ last' = Outcome(l, 200, "changed", "none", calls[l].body)
    /\ calls' = [calls EXCEPT ![l] = IdleCall]
    /\ UNCHANGED <<KB, DOCS, etag, lastModified, nLoads, sessVars, now, chatVars, env>>

\* the Embed call of rebuildEmbeddings rejects
RebuildEmbedFails(l) ==
    /\ calls[l].pc = "embedding"
    /\ calls' = [calls EXCEPT ![l] = IdleCall]
    /\ last' = Outcome(l, 200, "failed", "embed", calls[l].body)
    /\ UNCHANGED <<kbVars, nLoads, sessVars, now, chatVars, env>>

-----------------------------------------------------------------------------
(* Text.  A text is a sequence of tokens; markup tags, the line break and  *)
(* the currency signs are tokens of their own.                             *)

\* t.replace(/\$/g, "£")
PoundFor(tok) == IF tok = "$" THEN "£" ELSE tok

\* const enforceGBP = (t) => (t || "").replace(/\$/g, "£")
enforceGBP(t) == [i \in 1..Len(t) |-> PoundFor(t[i])]

LineBreakTags == {"<br>", "</li>", "</p>"}
OtherTags == {"<strong>", "</strong>", "<a>", "</a>", "<p>", "<li>"}

RECURSIVE BreaksToNewlines(_)
BreaksToNewlines(s) ==
    IF s = <<>> THEN <<>>
    ELSE (IF Head(s) \in LineBreakTags THEN <<"\n">>
          ELSE IF Head(s) \in OtherTags THEN <<>>
          ELSE <<Head(s)>>) \o BreaksToNewlines(Tail(s))

\* .replace(/\n{3,}/g, "\n\n"): n counts the newlines already kept in the run
RECURSIVE CollapseNewlines(_, _)
CollapseNewlines(s, n) ==
    IF s = <<>> THEN <<>>
    ELSE IF Head(s) = "\n"
         THEN (IF n < 2 THEN <<"\n">> ELSE <<>>) \o CollapseNewlines(Tail(s), n + 1)
         ELSE <<Head(s)>> \o CollapseNewlines(Tail(s), 0)

RECURSIVE TrimLeft(_)
TrimLeft(s) == IF s # <<>> /\ Head(s) = "\n" THEN TrimLeft(Tail(s)) ELSE s

RECURSIVE TrimRight(_)
TrimRight(s) ==
    IF s # <<>> /\ s[Len(s)] = "\n" THEN TrimRight(SubSeq(s, 1, Len(s) - 1)) ELSE s

\* String.prototype.trim
Trim(s) == TrimRight(TrimLeft(s))

stripHtmlToText(html) == Trim(CollapseNewlines(BreaksToNewlines(html), 0))

-----------------------------------------------------------------------------
(* Queries.  A query is its text and the set of the program's keywords     *)
(* that occur in normQ(text); hay.includes(n) is membership in that set.   *)

Query(text, has) == [text |-> text, has |-> has]

NoQuery == Query("", {})

Queries ==
    {Query("What about Mile End?", {"mile end"}),
     Query("can I book Saturday?", {"book", "saturday"}),
     Query("I want to book for Saturday", {"book", "saturday"}),
     Query("Do I need to book?", {"book"}),
     Query("where are your tracks", {"where", "tracks"}),
     Query("How many laps per session?", {"how many laps", "laps per session"}),
     Query("Can I pay a deposit at Gillingham?", {"pay", "deposit", "gillingham"}),
     Query("Is the helmet included when I book?", {"helmet", "book"}),
     Query("Gift my tickets", {"gift", "my tickets"}),
     Query("hello", {})}

hasAny(hay, needles) == hay.has \cap needles # {}

None == "none"

detectTrackIdFromText(q) ==
    IF hasAny(q, {"mile end", "mileend", "london"}) THEN "mile_end"
    ELSE IF hasAny(q, {"gillingham", "kent"}) THEN "gillingham"
    ELSE None

Days == <<"monday", "tuesday", "wednesday", "thursday", "friday", "saturday", "sunday">>
DayNames == <<"Monday", "Tuesday", "Wednesday", "Thursday", "Friday", "Saturday", "Sunday">>

extractDayFromText(q) ==
    LET hits == {i \in 1..Len(Days) : Days[i] \in q.has}
    IN  IF hits = {} THEN None
        ELSE DayNames[CHOOSE i \in hits : \A j \in hits : i <= j]

eligibilityTopics ==
    {"use my tickets", "use tickets", "valid", "eligib", "can i use",
     "book", "booking", "reserve", "availability", "slots",
     "deposit", "pay", "payment", "48 hours", "whatsapp",
     "mile end", "london track"}

locationTopics ==
    {"where", "location", "located", "postcode", "address", "tracks", "venues",
     "locations"}

generalTopics ==
    {"what's included", "whats included", "equipment", "helmet", "balaclava",
     "how many laps", "laps per session", "session length", "duration",
     "f1 simulator", "simulator", "refund", "expiry", "gift", "refer", "referral",
     "tickets left", "redeemed", "pin", "dashboard"} \cup locationTopics

dashboardTopics ==
    {"dashboard", "pin", "gift", "gifting", "referral", "credits",
     "tickets left", "redeemed", "tracking code", "my tickets",
     "check tickets", "ticket balance", "ticket checker", "custdash"}

mileEndTopics == {"mile end", "mileend", "london track"}

\* the eligibility keywords tried before the general ones
questionNeedsEligibilityFirst(q) ==
    IF hasAny(q, eligibilityTopics) THEN TRUE
    ELSE IF hasAny(q, generalTopics) THEN FALSE
    ELSE FALSE

questionNeedsEligibility(q) ==
    IF hasAny(q, generalTopics) THEN FALSE
    ELSE IF hasAny(q, eligibilityTopics) THEN TRUE
    ELSE FALSE

\* tracks.map((t) => `${t.name} (${t.region})`).join(" and ")
RECURSIVE JoinAnd(_)
JoinAnd(ts) ==
    IF ts = <<>> THEN <<>>
    ELSE IF Len(ts) = 1 THEN <<Head(ts)>>
    ELSE <<Head(ts), " and ">> \o JoinAnd(Tail(ts))

NoReply == <<>>

buildTracksHtml(kb) ==
    IF kb.tracks = <<>> THEN NoReply
    ELSE <<"We currently run tracks in ", "<strong>">> \o JoinAnd(kb.tracks)
         \o <<"</strong>", ".">>

DashboardHtml ==
    <<"Manage tickets, gifting and referrals in the ", "<a>", "Customer Dashboard",
      "</a>", ".", "<br>", "For a quick check only, use the ", "<a>",
      "Ticket Checker", "</a>", ".">>

MileEndHtml ==
    <<"Mile End is our ", "<strong>", "London", "</strong>",
      " outdoor electric track.", "<br>", "8 laps per session", "<br>",
      "Minimum height: 155 cm", "<br>", "Tickets valid: Mon / Tue / Wed / Sun",
      "<br>", "<a>", "Book Experience", "</a>">>

AskTrackHtml ==
    <<"Which track are you looking at - ", "<strong>", "Gillingham", "</strong>",
      " or ", "<strong>", "Mile End (London)", "</strong>", "?", "<br>",
      "<a>", "Book Experience", "</a>">>

AskDayHtml ==
    <<"What day are you looking to race at ", "<strong>", "Mile End", "</strong>",
      "?", "<br>", "Tickets are valid ", "<strong>", "Mon / Tue / Wed / Sun",
      "</strong>", " (pre-book required).", "<br>", "<a>", "Book Experience", "</a>">>

FallbackText == <<"Sorry, I couldn't generate a reply.">>

\* what the Generate provider can return as message content (<<>>: none)
GenTexts == {<<>>, <<"<p>", "answer", "</p>">>, <<"from ", "$", "12">>}

\* slots assigned from every message, named or not
UpdateSlotsAssignAlways(slots, q) ==
    [trackId |-> detectTrackIdFromText(q), day |-> extractDayFromText(q)]

\* if (tid) sess.slots.trackId = tid;  if (day) sess.slots.day = day;
UpdateSlots(slots, q) ==
    [trackId |-> IF detectTrackIdFromText(q) # None
                 THEN detectTrackIdFromText(q) ELSE slots.trackId,
     day |-> IF extractDayFromText(q) # None
             THEN extractDayFromText(q) ELSE slots.day]

\* the Mile End topic tried before the other two
fastRouteReplyMileEndFirst(q, kb) ==
    IF hasAny(q, mileEndTopics) THEN MileEndHtml
    ELSE IF hasAny(q, locationTopics) /\ buildTracksHtml(kb) # NoReply
    THEN buildTracksHtml(kb) \o <<"<br>", "Which one are you looking at?">>
    ELSE IF hasAny(q, dashboardTopics) THEN DashboardHtml
    ELSE NoReply

\* the part of fastRouteReply after the slot update: the canned reply or null
fastRouteReply(q, kb) ==
    IF hasAny(q, locationTopics) /\ buildTracksHtml(kb) # NoReply
    THEN buildTracksHtml(kb) \o <<"<br>", "Which one are you looking at?">>
    ELSE IF hasAny(q, dashboardTopics) THEN DashboardHtml
    ELSE IF hasAny(q, mileEndTopics) THEN MileEndHtml
    ELSE NoReply

-----------------------------------------------------------------------------
(* Cosine similarity and retrieval.  A score dot / sqrt(den2) is kept as   *)
(* the pair (dot, den2) and compared exactly.                              *)

RECURSIVE Dot(_, _, _)
Dot(a, b, i) == IF i > Len(a) THEN 0 ELSE a[i] * b[i] + Dot(a, b, i + 1)

\* nb += y * y, y = b[i], over the indices of a
Nb(a, b) == Dot([i \in 1..Len(a) |-> b[i]], [i \in 1..Len(a) |-> b[i]], 1)

\* a score whose denominator is the norm of the first argument alone
cosineFirstNorm(a, b) ==
    [dot |-> Dot(a, b, 1),
     den2 |-> IF Dot(a, a, 1) = 0 THEN 1 ELSE Dot(a, a, 1) * Dot(a, a, 1)]

\* a score without the `|| 1`: den2 = 0 stands for a division by zero
cosineUnguarded(a, b) ==
    [dot |-> Dot(a, b, 1), den2 |-> Dot(a, a, 1) * Nb(a, b)]

\* const denom = Math.sqrt(na) * Math.sqrt(nb) || 1; return dot / denom;
cosine(a, b) ==
    [dot |-> Dot(a, b, 1),
     den2 |-> IF Dot(a, a, 1) * Nb(a, b) = 0 THEN 1
              ELSE Dot(a, a, 1) * Nb(a, b)]

\* s > t for scores
ScoreGreater(s, t) ==
    IF s.dot >= 0 /\ t.dot >= 0 THEN s.dot * s.dot * t.den2 > t.dot * t.dot * s.den2
    ELSE IF s.dot >= 0 THEN TRUE
    ELSE IF t.dot >= 0 THEN FALSE
    ELSE s.dot * s.dot * t.den2 < t.dot * t.dot * s.den2

\* insert x in front of the elements that score the same (not stable)
RECURSIVE InsertDescBeforeEqual(_, _)
InsertDescBeforeEqual(x, sorted) ==
    IF sorted = <<>> THEN <<x>>
    ELSE IF ~ScoreGreater(Head(sorted).score, x.score) THEN <<x>> \o sorted
    ELSE <<Head(sorted)>> \o InsertDescBeforeEqual(x, Tail(sorted))

\* insert x behind every element that does not score lower (stable sort)
RECURSIVE InsertDesc(_, _)
InsertDesc(x, sorted) ==
    IF sorted = <<>> THEN <<x>>
    ELSE IF ScoreGreater(x.score, Head(sorted).score) THEN <<x>> \o sorted
    ELSE <<Head(sorted)>> \o InsertDesc(x, Tail(sorted))

\* .sort((a, b) => b.score - a.score)
RECURSIVE SortDesc(_, _)
SortDesc(s, acc) ==
    IF s = <<>> THEN acc ELSE SortDesc(Tail(s), InsertDesc(Head(s), acc))

\* VECTORS.map(score).sort(desc).slice(0, k)
TopK(index, qEmb, k) ==
    LET scored == [i \in 1..Len(index) |->
                     [v |-> index[i], score |-> cosine(qEmb, index[i].embedding)]]
        sorted == SortDesc(scored, <<>>)
    IN  SubSeq(sorted, 1, IF Len(sorted) < k THEN Len(sorted) ELSE k)

\* what Embed can return for a retrieval query
QueryVecs == {<<1, 0>>, <<0 - 1, 2>>, <<0, 0>>}

\* contextBlock: the numbered, attributed snippets
ContextOf(retrieved) ==
    [i \in 1..Len(retrieved) |->
        [n |-> i, id |-> retrieved[i].v.id, text |-> retrieved[i].v.meta.text,
         url |-> retrieved[i].v.meta.url]]

\* retrieved.map((r) => ({ id: r.v.id, url: r.v.meta.url }))
SourcesOf(retrieved) ==
    [i \in 1..Len(retrieved) |->
        [id |-> retrieved[i].v.id, url |-> retrieved[i].v.meta.url]]

-----------------------------------------------------------------------------
(* Conversation memory *)

NewSession(t) ==
    [updatedAt |-> t, turns |-> <<>>, slots |-> [trackId |-> None, day |-> None]]

\* Date.now() - s.updatedAt > SESS_TTL_MS
Expired(s, t) == t - s.updatedAt > SESS_TTL_MS

\* no session is ever found again: every request starts a new one
HasLiveSessNever(id) == FALSE

\* a session is returned for as long as the map holds it
HasLiveSessWhilePresent(id) == id \in DOMAIN SESS

\* getSess(id) returns a session (it is present and not expired)
HasLiveSess(id) == id \in DOMAIN SESS /\ ~Expired(heap[SESS[id]], now)

\* a reference no live object uses
FreshRef == CHOOSE n \in 1..(Cardinality(DOMAIN heap) + 1) : n \notin DOMAIN heap

\* one session object for every id: the first one made is handed to all
UpsertRefOneObject(id) ==
    IF HasLiveSess(id) THEN SESS[id]
    ELSE IF DOMAIN heap # {} THEN CHOOSE n \in DOMAIN heap : TRUE
    ELSE FreshRef

\* the reference upsertSess(id) returns
UpsertRef(id) == IF HasLiveSess(id) THEN SESS[id] ELSE FreshRef

\* truncation that keeps the oldest turns: slice(0, SESS_MAX_TURNS)
pushTurnKeepOldest(sess, role, content) ==
    LET pushed == Append(sess.turns, [role |-> role, content |-> content])
    IN  [sess EXCEPT !.turns =
           IF Len(pushed) > SESS_MAX_TURNS
           THEN SubSeq(pushed, 1, SESS_MAX_TURNS)
           ELSE pushed]

\* a cap that already trims a history of exactly SESS_MAX_TURNS turns to one less
pushTurnTrimsAtCap(sess, role, content) ==
    LET pushed == Append(sess.turns, [role |-> role, content |-> content])
    IN  [sess EXCEPT !.turns =
           IF Len(pushed) >= SESS_MAX_TURNS
           THEN SubSeq(pushed, Len(pushed) - SESS_MAX_TURNS + 2, Len(pushed))
           ELSE pushed]

\* pushTurn(sess, role, content)
pushTurn(sess, role, content) ==
    LET pushed == Append(sess.turns, [role |-> role, content |-> content])
    IN  [sess EXCEPT !.turns =
           IF Len(pushed) > SESS_MAX_TURNS
           THEN SubSeq(pushed, Len(pushed) - SESS_MAX_TURNS + 1, Len(pushed))
           ELSE pushed]

\* only the reply is recorded
PushExchangeReplyOnly(sess, q, botText) ==
    pushTurn(sess, "assistant", stripHtmlToText(botText))

\* both turns of one exchange
PushExchange(sess, q, botText) ==
    pushTurn(pushTurn(sess, "user", <<q.text>>), "assistant", stripHtmlToText(botText))

\* a request's network context: the entries of its x-forwarded-for header (none:
\* no header), its socket address and its user-agent header
Client(xff, remote, ua) == [xff |-> xff, remote |-> remote, ua |-> ua]

\* String(req.headers["x-forwarded-for"] || "").split(",")[0].trim()
FirstForwarded(client) == IF client.xff = <<>> THEN "" ELSE Head(client.xff)

\* sha1 of the whole forwarding chain instead of its first entry
RECURSIVE JoinChain(_)
JoinChain(xff) == IF xff = <<>> THEN "" ELSE Head(xff) \o "," \o JoinChain(Tail(xff))

inferSessionIdWholeChain(client) ==
    "sha1(" \o (IF client.xff # <<>> THEN JoinChain(client.xff)
                ELSE IF client.remote # "" THEN client.remote ELSE "unknown")
            \o "::" \o (IF client.ua # "" THEN client.ua ELSE "ua") \o ")"

\* sha1(`${ip}::${ua}`) of inferSessionId
inferSessionId(client) ==
    "sha1(" \o (IF FirstForwarded(client) # "" THEN FirstForwarded(client)
                ELSE IF client.remote # "" THEN client.remote ELSE "unknown")
            \o "::" \o (IF client.ua # "" THEN client.ua ELSE "ua") \o ")"

\* String(req.body?.sessionId || "") || inferSessionId(req)
SessionIdOf(body, client) ==
    IF body.sessionId # "" THEN body.sessionId ELSE inferSessionId(client)

\* the objects still referenced by the map or by a request in flight
Restrict(h, map, rq) ==
    LET live == {map[i] : i \in DOMAIN map}
                \cup {rq[r].sess : r \in {x \in DOMAIN rq : rq[x].pc # "idle"}}
    IN  [n \in DOMAIN h \cap live |-> h[n]]

-----------------------------------------------------------------------------
(* The chat route *)

NoClient == Client(<<>>, "", "")

\* n: the request's ordinal; input: the request as received; evicted: getSess
\* deleted an expired session
IdleReq ==
    [pc |-> "idle", n |-> 0, input |-> [body |-> [query |-> NoQuery, sessionId |-> ""],
                               client |-> NoClient],
     evicted |-> FALSE, query |-> NoQuery, sid |-> "", sess |-> 0,
     qEmb |-> <<>>, index |-> <<>>, retrieved |-> <<>>, context |-> <<>>,
     embeds |-> 0, gens |-> 0,
     status |-> 0, branch |-> "none", response |-> <<>>, sources |-> <<>>]

Body(q, s) == [query |-> q, sessionId |-> s]
\* every query under the sessionId "s1", and one request without a sessionId
Bodies ==
    {Body(q, "s1") : q \in Queries \cup {NoQuery}} \cup {Body(Query("hello", {}), "")}
Direct == Client(<<>>, "10.0.0.7", "ua1")
Clients ==
    {Direct,
     Client(<<>>, "10.0.0.7", "ua2"),
     Client(<<"203.0.113.5">>, "10.0.0.7", "ua1"),
     Client(<<"203.0.113.5", "10.0.0.9">>, "10.0.0.8", "ua1")}

\* a policy that never asks for the day
BranchTrackOnly(q, kb, sl) ==
    IF fastRouteReply(q, kb) # NoReply THEN "fast"
    ELSE IF questionNeedsEligibility(q) /\ sl.trackId = None THEN "ask_track"
    ELSE "generate"

\* the slot questions tried before the fast routes
BranchSlotsFirst(q, kb, sl) ==
    IF questionNeedsEligibility(q) /\ sl.trackId = None THEN "ask_track"
    ELSE IF questionNeedsEligibility(q) /\ sl.trackId = "mile_end" /\ sl.day = None
    THEN "ask_day"
    ELSE IF fastRouteReply(q, kb) # NoReply THEN "fast"
    ELSE "generate"

\* a policy that asks for the day at every track
BranchDayAtAnyTrack(q, kb, sl) ==
    IF fastRouteReply(q, kb) # NoReply THEN "fast"
    ELSE IF questionNeedsEligibility(q) /\ sl.trackId = None THEN "ask_track"
    ELSE IF questionNeedsEligibility(q) /\ sl.day = None THEN "ask_day"
    ELSE "generate"

\* the dialogue policy: which branch answers query q for slots sl
Branch(q, kb, sl) ==
    IF fastRouteReply(q, kb) # NoReply THEN "fast"
    ELSE IF questionNeedsEligibility(q) /\ sl.trackId = None THEN "ask_track"
    ELSE IF questionNeedsEligibility(q) /\ sl.trackId = "mile_end" /\ sl.day = None
    THEN "ask_day"
    ELSE "generate"

\* the reply of the branches that answer without retrieval
CannedReply(branch, q, kb) ==
    CASE branch = "fast" -> enforceGBP(fastRouteReply(q, kb))
      [] branch = "ask_track" -> AskTrackHtml
      [] branch = "ask_day" -> AskDayHtml

\* the readiness test made before the query test
EarlyStatusReadyFirst(body) ==
    IF KB.json = "null" THEN 503
    ELSE IF body.query = NoQuery THEN 400
    ELSE 0

\* if (!query) return res.status(400)...; if (!KB) return res.status(503)...
\* (0: the request goes on)
EarlyStatus(body) ==
    IF body.query = NoQuery THEN 400
    ELSE IF KB.json = "null" THEN 503
    ELSE 0

\* the number of chat requests in flight
InFlight == Cardinality({x \in Reqs : reqs[x].pc # "idle"})

\* the handler from its start to its first await of I/O, or to its response
ChatStart(r, body, client) ==
    /\ reqs[r].pc = "idle"
    /\ r = "r1" \/ reqs["r1"].pc # "idle"
    /\ InFlight < env.conc
    /\ nReqs < env.reqs
    /\ nReqs' = nReqs + 1
    /\ IF EarlyStatus(body) # 0
       THEN /\ reqs' = [reqs EXCEPT ![r] =
                 [IdleReq EXCEPT !.n = nReqs + 1,
                                 !.input = [body |-> body, client |-> client],
                                 !.query = body.query, !.status = EarlyStatus(body)]]
            /\ UNCHANGED sessVars
       ELSE LET q == body.query
                id == SessionIdOf(body, client)
                ref == UpsertRef(id)
                old == IF HasLiveSess(id) THEN heap[SESS[id]] ELSE NewSession(now)
                s1 == [old EXCEPT !.updatedAt = now,
                                  !.slots = UpdateSlots(old.slots, q)]
                br == Branch(q, KB, s1.slots)
                base == [IdleReq EXCEPT !.n = nReqs + 1,
                                        !.input = [body |-> body, client |-> client],
                                        !.evicted = (id \in DOMAIN SESS /\ ~HasLiveSess(id)),
                                        !.query = q, !.sid = id, !.sess = ref,
                                        !.branch = br]
                map == [i \in DOMAIN SESS \cup {id} |-> IF i = id THEN ref ELSE SESS[i]]
            IN  /\ SESS' = map
                /\ IF br # "generate"
                   THEN /\ reqs' = [reqs EXCEPT ![r] =
                             [base EXCEPT !.status = 200,
                                          !.response = CannedReply(br, q, KB)]]
                        /\ heap' = Restrict(
                             [n \in DOMAIN heap \cup {ref} |->
                                IF n = ref
                                THEN PushExchange(s1, q, CannedReply(br, q, KB))
                                ELSE heap[n]], map, reqs')
                   ELSE /\ reqs' = [reqs EXCEPT ![r] =
                             IF VECTORS = <<>>
                             THEN [base EXCEPT !.pc = "generating", !.gens = 1]
                             ELSE [base EXCEPT !.pc = "embedding", !.embeds = 1]]
                        /\ heap' = Restrict(
                             [n \in DOMAIN heap \cup {ref} |->
                                IF n = ref THEN s1 ELSE heap[n]], map, reqs')
    /\ UNCHANGED <<kbVars, loadVars, now, env>>

\* retrieve resumes: scoring over VECTORS; then the messages and the Generate call
ChatEmbedOk(r, qEmb) ==
    /\ reqs[r].pc = "embedding"
    /\ reqs' = [reqs EXCEPT ![r].pc = "generating",
                            ![r].qEmb = qEmb,
                            ![r].index = VECTORS,
                            ![r].retrieved = TopK(VECTORS, qEmb, RETRIEVE_K),
                            ![r].context = ContextOf(TopK(VECTORS, qEmb, RETRIEVE_K)),
                            ![r].gens = 1]
    /\ UNCHANGED <<kbVars, loadVars, sessVars, now, nReqs, env>>

\* a catch block that records the failed exchange in the history
ChatProviderFailsRecords(r) ==
    /\ reqs[r].pc \in {"embedding", "generating"}
    /\ reqs' = [reqs EXCEPT ![r].pc = "idle", ![r].status = 500]
    /\ heap' = Restrict(
         [heap EXCEPT ![reqs[r].sess] =
            PushExchange(heap[reqs[r].sess], reqs[r].query, <<"Server error">>)],
         SESS, reqs')
    /\ UNCHANGED <<kbVars, loadVars, SESS, now, nReqs, env>>

\* a rejected provider call is made once more before the request gives up
ChatProviderFailsRetries(r) ==
    /\ reqs[r].pc \in {"embedding", "generating"}
    /\ reqs' = [reqs EXCEPT ![r] =
         IF reqs[r].pc = "embedding" /\ reqs[r].embeds < 2
         THEN [reqs[r] EXCEPT !.embeds = 2]
         ELSE IF reqs[r].pc = "generating" /\ reqs[r].gens < 2
         THEN [reqs[r] EXCEPT !.gens = 2]
         ELSE [reqs[r] EXCEPT !.pc = "idle", !.status = 500]]
    /\ heap' = Restrict(heap, SESS, reqs')
    /\ UNCHANGED <<kbVars, loadVars, SESS, now, nReqs, env>>

\* an Embed or Generate rejection lands in the catch block
ChatProviderFails(r) ==
    /\ reqs[r].pc \in {"embedding", "generating"}
    /\ reqs' = [reqs EXCEPT ![r].pc = "idle", ![r].status = 500]
    /\ heap' = Restrict(heap, SESS, reqs')
    /\ UNCHANGED <<kbVars, loadVars, SESS, now, nReqs, env>>

\* the reply without the currency normalisation
ReplyTextRaw(content) ==
    IF Trim(content) = <<>> THEN FallbackText ELSE Trim(content)

\* enforceGBP(content?.trim()) || fallback
ReplyText(content) ==
    IF enforceGBP(Trim(content)) = <<>> THEN FallbackText ELSE enforceGBP(Trim(content))

\* sources taken from the index as it is when the reply is sent
ResponseSourcesReread(r) == SourcesOf(TopK(VECTORS, reqs[r].qEmb, RETRIEVE_K))

\* const sources = retrieved.map(...)
ResponseSources(r) == SourcesOf(reqs[r].retrieved)

\* Generate resolves: the reply is recorded in the session and returned
ChatGenOk(r, content) ==
    /\ reqs[r].pc = "generating"
    /\ reqs' = [reqs EXCEPT ![r].pc = "idle", ![r].status = 200,
                            ![r].response = ReplyText(content),
                            ![r].sources = ResponseSources(r)]
    /\ heap' = Restrict(
         [heap EXCEPT ![reqs[r].sess] =
            PushExchange(heap[reqs[r].sess], reqs[r].query, ReplyText(content))],
         SESS, reqs')
    /\ UNCHANGED <<kbVars, loadVars, SESS, now, nReqs, env>>

-----------------------------------------------------------------------------
(* Timers *)

\* time passes
Tick ==
    /\ now < env.time
    /\ now' = now + 1
    /\ UNCHANGED <<kbVars, loadVars, sessVars, chatVars, env>>

\* a sweep that also removes the sessions idle for exactly the timeout
SweepAtTimeout ==
    /\ \E i \in DOMAIN SESS : now - heap[SESS[i]].updatedAt >= SESS_TTL_MS
    /\ SESS' = [i \in {j \in DOMAIN SESS : now - heap[SESS[j]].updatedAt < SESS_TTL_MS}
                  |-> SESS[i]]
    /\ heap' = Restrict(heap, SESS', reqs)
    /\ UNCHANGED <<kbVars, loadVars, now, chatVars, env>>

\* the session sweep timer
Sweep ==
    /\ \E i \in DOMAIN SESS : Expired(heap[SESS[i]], now)
    /\ SESS' = [i \in {j \in DOMAIN SESS : ~Expired(heap[SESS[j]], now)} |-> SESS[i]]
    /\ heap' = Restrict(heap, SESS', reqs)
    /\ UNCHANGED <<kbVars, loadVars, now, chatVars, env>>

-----------------------------------------------------------------------------
(* Specification *)

\* the requests made while the knowledge base is being synchronised
SyncQueries ==
    {NoQuery,
     Query("How many laps per session?", {"how many laps", "laps per session"}),
     Query("where are your tracks", {"where", "tracks"})}

\* the state after construction
Fresh ==
    /\ KB = KBNull
    /\ DOCS = <<>>
    /\ VECTORS = <<>>
    /\ etag = NoTag
    /\ lastModified = NoTag
    /\ calls = [l \in Loaders |-> IdleCall]
    /\ last = NoOutcome
    /\ nLoads = 0
    /\ SESS = <<>>
    /\ heap = <<>>
    /\ now = 0
    /\ reqs = [r \in Reqs |-> IdleReq]
    /\ nReqs = 0

\* the knowledge state after warmup has loaded kb and built its index
LoadedIndexOf(kb) ==
    /\ KB = kb
    /\ DOCS = flattenDocsFromKB(kb)
    /\ VECTORS = IndexOf(kb)
    /\ etag = kb.tag
    /\ lastModified = kb.tag
    /\ calls = [l \in Loaders |-> IdleCall]
    /\ last = Outcome(1, 200, "changed", "none", kb)
    /\ nLoads = 0
    /\ now = 0
    /\ reqs = [r \in Reqs |-> IdleReq]
    /\ nReqs = 0

LoadedIndex == LoadedIndexOf(KBA)

\* the state after warmup, before any conversation
Loaded ==
    /\ LoadedIndex
    /\ SESS = <<>>
    /\ heap = <<>>

LoadNext ==
    \/ \E l \in Loaders, force \in BOOLEAN : FetchKBStart(l, force)
    \/ \E l \in Loaders : FetchKBNotModified(l)
    \/ \E l \in Loaders, why \in {"status", "parse"} : FetchKBRejects(l, why)
    \/ \E l \in Loaders, json \in Payloads, e \in BOOLEAN, m \in BOOLEAN :
          FetchKBBody(l, json, e, m)
    \/ \E l \in Loaders : RebuildEmbedOk(l)
    \/ \E l \in Loaders : RebuildEmbedFails(l)

ChatNext ==
    \/ \E r \in Reqs, body \in env.bodies, client \in env.clients :
          ChatStart(r, body, client)
    \/ \E r \in Reqs, qEmb \in env.qvecs : ChatEmbedOk(r, qEmb)
    \/ \E r \in Reqs : ChatProviderFails(r)
    \/ \E r \in Reqs, content \in env.gens : ChatGenOk(r, content)

(* The service from its start: loads and chat requests interleaved. *)

Init ==
    /\ Fresh
    /\ env = [conc |-> 1, loads |-> MaxLoads, reqs |-> MaxReqs, time |-> 0,
              bodies |-> {Body(q, "s1") : q \in SyncQueries}, clients |-> {Direct},
              qvecs |-> {<<1, 0>>, <<0 - 1, 2>>},
              gens |-> {<<"from ", "$", "12">>}]

Next == LoadNext \/ ChatNext

Spec == Init /\ [][Next]_vars

(* The knowledge base synchronisation alone. *)

InitLoad ==
    /\ Fresh
    /\ env = [conc |-> 1, loads |-> MaxSyncLoads, reqs |-> 0, time |-> 0,
              bodies |-> {}, clients |-> {}, qvecs |-> {}, gens |-> {}]

SpecLoad == InitLoad /\ [][LoadNext]_vars

(* Refreshes of a loaded snapshot, interleaved with chat requests. *)

InitRefresh ==
    /\ Loaded
    /\ env = [conc |-> 1, loads |-> MaxRefreshLoads, reqs |-> MaxRefreshReqs, time |-> 0,
              bodies |-> {Body(q, "s1") : q \in SyncQueries}, clients |-> {Direct},
              qvecs |-> {<<1, 0>>, <<0 - 1, 2>>},
              gens |-> {<<"from ", "$", "12">>}]

SpecRefresh == InitRefresh /\ [][Next]_vars

(* Conversations over a loaded snapshot, with the clock and the session    *)
(* sweep running.                                                          *)

InitSess ==
    /\ Loaded
    /\ env = [conc |-> 1, loads |-> 0, reqs |-> MaxSessReqs, time |-> MaxTime,
              bodies |-> Bodies, clients |-> {Direct},
              qvecs |-> {<<1, 0>>},
              gens |-> {<<"<p>", "answer", "</p>">>}]

NextSess == ChatNext \/ Tick \/ Sweep

SpecSess == InitSess /\ [][NextSess]_vars

(* The first load after the start, and requests that arrive meanwhile.  No *)
(* change token is stored before that load, so no 304 can answer it.       *)

BootNext ==
    \/ \E l \in Loaders, force \in BOOLEAN : FetchKBStart(l, force)
    \/ \E l \in Loaders, why \in {"status", "parse"} : FetchKBRejects(l, why)
    \/ \E l \in Loaders, json \in Payloads, e \in BOOLEAN, m \in BOOLEAN :
          FetchKBBody(l, json, e, m)
    \/ \E l \in Loaders : RebuildEmbedOk(l)
    \/ \E l \in Loaders : RebuildEmbedFails(l)
    \/ ChatNext

InitBoot ==
    /\ Fresh
    /\ env = [conc |-> 1, loads |-> MaxBootLoads, reqs |-> MaxBootReqs, time |-> 0,
              bodies |-> {Body(Query("hello", {}), "s1")},
              clients |-> {Direct},
              qvecs |-> QueryVecs,
              gens |-> {<<"<p>", "answer", "</p>">>}]

SpecBoot == InitBoot /\ [][BootNext]_vars

(* Requests from several network contexts, with and without a sessionId. *)

InitIdent ==
    /\ Loaded
    /\ env = [conc |-> 1, loads |-> 0, reqs |-> MaxIdentReqs, time |-> 0,
              bodies |-> {Body(Query("hello", {}), s) : s \in {"", "s1"}},
              clients |-> Clients,
              qvecs |-> {<<1, 0>>},
              gens |-> {<<"<p>", "answer", "</p>">>}]

SpecIdent == InitIdent /\ [][ChatNext]_vars

(* The maintenance surface: reload requests against a loaded service. *)

AdminNext ==
    \/ \E l \in Loaders, cred \in Credentials : KbReload(l, cred)
    \/ \E l \in Loaders, why \in {"status", "parse"} : FetchKBRejects(l, why)
    \/ \E l \in Loaders, json \in Payloads, e \in BOOLEAN, m \in BOOLEAN :
          FetchKBBody(l, json, e, m)
    \/ \E l \in Loaders : RebuildEmbedOk(l)
    \/ \E l \in Loaders : RebuildEmbedFails(l)

InitAdmin ==
    /\ Loaded
    /\ env = [conc |-> 1, loads |-> MaxAdminLoads, reqs |-> 0, time |-> 0,
              bodies |-> {}, clients |-> {}, qvecs |-> {}, gens |-> {}]

SpecAdmin == InitAdmin /\ [][AdminNext]_vars

(* A conversation that names one venue and then the other. *)

SwitchQueries ==
    {Query("Can I pay a deposit at Gillingham?", {"pay", "deposit", "gillingham"}),
     Query("Can I book at the London one instead?", {"book", "london"}),
     Query("Do I need to book?", {"book"}),
     Query("hello", {})}

InitSwitch ==
    /\ Loaded
    /\ env = [conc |-> 1, loads |-> 0, reqs |-> MaxSwitchReqs, time |-> 0,
              bodies |-> {Body(q, "s1") : q \in SwitchQueries},
              clients |-> {Direct},
              qvecs |-> {<<1, 0>>},
              gens |-> GenTexts]

SpecSwitch == InitSwitch /\ [][ChatNext]_vars

(* The first load when the source may serve a document with repeated *)
(* entries, and a request after it.                                  *)

MaxRepeatLoads == 1
MaxRepeatReqs == 1

RepeatNext ==
    \/ \E l \in Loaders, force \in BOOLEAN : FetchKBStart(l, force)
    \/ \E l \in Loaders, why \in {"status", "parse"} : FetchKBRejects(l, why)
    \/ \E l \in Loaders, json \in {KBA, KBRepeat}, e \in BOOLEAN, m \in BOOLEAN :
          FetchKBBody(l, json, e, m)
    \/ \E l \in Loaders : RebuildEmbedOk(l)
    \/ \E l \in Loaders : RebuildEmbedFails(l)
    \/ ChatNext

InitRepeat ==
    /\ Fresh
    /\ env = [conc |-> 1, loads |-> MaxRepeatLoads, reqs |-> MaxRepeatReqs, time |-> 0,
              bodies |-> {Body(Query("hello", {}), "s1")},
              clients |-> {Direct},
              qvecs |-> {<<1, 0>>},
              gens |-> {<<"<p>", "answer", "</p>">>}]

SpecRepeat == InitRepeat /\ [][RepeatNext]_vars

(* Queries that match more than one fast-route topic, against a snapshot *)
(* with venues and against one without.                                  *)

MaxRouteReqs == 2

RouteQueries ==
    {Query("Where is the Mile End track?", {"where", "mile end"}),
     Query("Where do I find my dashboard PIN?", {"where", "dashboard", "pin"}),
     Query("Can I gift tickets for Mile End?", {"gift", "mile end"}),
     Query("What is the address? Can I book?", {"address", "book"}),
     Query("What about Mile End?", {"mile end"}),
     Query("Do I need to book?", {"book"}),
     Query("hello", {})}

InitRoute ==
    /\ \E kb \in {KBA, KBNoVenues} : LoadedIndexOf(kb)
    /\ SESS = <<>>
    /\ heap = <<>>
    /\ env = [conc |-> 1, loads |-> 0, reqs |-> MaxRouteReqs, time |-> 0,
              bodies |-> {Body(q, "s1") : q \in RouteQueries},
              clients |-> {Direct},
              qvecs |-> {<<1, 0>>},
              gens |-> {<<"<p>", "answer", "</p>">>}]

SpecRoute == InitRoute /\ [][ChatNext]_vars

(* Loads over a loaded snapshot while one conversation goes on. *)

InitExtract ==
    /\ Loaded
    /\ env = [conc |-> 1, loads |-> MaxExtractLoads, reqs |-> MaxExtractReqs, time |-> 0,
              bodies |-> {Body(Query("hello", {}), "s1"),
                          Body(Query("What about Mile End?", {"mile end"}), "s1")},
              clients |-> {Direct},
              qvecs |-> {<<1, 0>>},
              gens |-> {<<"<p>", "answer", "</p>">>}]

SpecExtract == InitExtract /\ [][Next]_vars

(* Boot and the refresh timer, with a source and an Embed provider that    *)
(* fail for a while and then recover.  No request is needed: the chat      *)
(* route is not part of this specification.                                *)

\* a refresh timer registered only once a snapshot is held
TimersRegisteredIfLoaded == last.call # 0 /\ KB.json # "null"

\* `await warmup()` has returned (warmup catches every error of its loads),
\* so the setInterval calls after it have run
TimersRegistered == last.call # 0

\* app.listen callback: await warmup(), whose load is fetchKB(true)
Warmup(l) == nLoads = 0 /\ FetchKBCall(l, TRUE, "internal")

\* setInterval(() => fetchKB(false).catch(...), REFRESH_MS)
RefreshTick(l) == TimersRegistered /\ FetchKBCall(l, FALSE, "internal")

\* the source and the Embed provider may still fail: fewer than
\* MaxLiveFails + 1 calls have been started
SourceDown == nLoads <= MaxLiveFails

\* the reply to `await fetch(KB_URL, {headers})`: anything while the source is
\* down; afterwards 200 with a well-formed document, or 304 about the
\* snapshot the service holds
LiveFetchReply(l) ==
    \/ \E why \in {"status", "parse"} : SourceDown /\ FetchKBRejects(l, why)
    \/ (SourceDown \/ KB.json # "null") /\ FetchKBNotModified(l)
    \/ \E json \in {KBNull, KBA, KBB}, h \in BOOLEAN :
          (SourceDown \/ WellFormed(json)) /\ FetchKBBody(l, json, h, h)

\* the reply to the Embed call of rebuildEmbeddings
LiveEmbedReply(l) ==
    \/ RebuildEmbedOk(l)
    \/ SourceDown /\ RebuildEmbedFails(l)

LiveNext ==
    \/ \E l \in Loaders : Warmup(l)
    \/ \E l \in Loaders : RefreshTick(l)
    \/ \E l \in Loaders : LiveFetchReply(l)
    \/ \E l \in Loaders : LiveEmbedReply(l)

InitLive ==
    /\ Fresh
    /\ env = [conc |-> 1, loads |-> MaxLiveLoads, reqs |-> 0, time |-> 0,
              bodies |-> {}, clients |-> {}, qvecs |-> {}, gens |-> {}]

\* the boot code runs; the interval timer fires; every fetch and every
\* provider call settles (the HTTP clients time out)
LiveFair ==
    /\ WF_vars(\E l \in Loaders : Warmup(l))
    /\ WF_vars(\E l \in Loaders : RefreshTick(l))
    /\ \A l \in Loaders : WF_vars(LiveFetchReply(l))
    /\ \A l \in Loaders : WF_vars(LiveEmbedReply(l))

SpecLive == InitLive /\ [][LiveNext]_vars /\ LiveFair

(* Requests with and without a query, before and after the first load. *)

InitValid ==
    /\ Fresh \/ Loaded
    /\ env = [conc |-> 1, loads |-> 0, reqs |-> MaxValidReqs, time |-> 0,
              bodies |-> {Body(Query("What about Mile End?", {"mile end"}), "s1"),
                          Body(Query("Do I need to book?", {"book"}), "s1"),
                          Body(Query("hello", {}), "s1"),
                          Body(Query("hello", {}), ""),
                          Body(NoQuery, "s1"), Body(NoQuery, "")},
              clients |-> {Direct, NoClient},
              qvecs |-> {<<1, 0>>},
              gens |-> {<<"<p>", "answer", "</p>">>}]

SpecValid == InitValid /\ [][ChatNext]_vars

(* Every query of a conversation, and every text Generate can return. *)

InitReply ==
    /\ \E kb \in {KBA, KBDollar} : LoadedIndexOf(kb)
    /\ SESS = <<>>
    /\ heap = <<>>
    /\ env = [conc |-> 1, loads |-> 0, reqs |-> MaxReplyReqs, time |-> 0,
              bodies |-> {Body(q, "s1") : q \in Queries},
              clients |-> {Direct},
              qvecs |-> {<<1, 0>>},
              gens |-> GenTexts]

SpecReply == InitReply /\ [][ChatNext]_vars

(* A conversation that is already seven exchanges long. *)

EarlierTexts ==
    <<"q1", "a1", "q2", "a2", "q3", "a3", "q4", "a4", "q5", "a5", "q6", "a6",
      "q7", "a7">>

\* the turns of the earlier exchanges, as pushTurn stored them
EarlierTurns ==
    [i \in 1..Len(EarlierTexts) |->
        [role |-> IF i % 2 = 1 THEN "user" ELSE "assistant",
         content |-> <<EarlierTexts[i]>>]]

HistQueries ==
    {Query("hello", {}),
     Query("where are your tracks", {"where", "tracks"}),
     Query("can I book Saturday?", {"book", "saturday"}),
     Query("Gift my tickets", {"gift", "my tickets"})}

InitHist ==
    /\ LoadedIndex
    /\ SESS = [i \in {"s1"} |-> 1]
    /\ heap = [n \in {1} |-> [NewSession(0) EXCEPT !.turns = EarlierTurns]]
    /\ env = [conc |-> 1, loads |-> 0, reqs |-> MaxHistReqs, time |-> 0,
              bodies |-> {Body(q, "s1") : q \in HistQueries},
              clients |-> {Direct},
              qvecs |-> QueryVecs,
              gens |-> {<<"<p>", "answer", "</p>">>, <<"from ", "$", "12">>}]

SpecHist == InitHist /\ [][ChatNext]_vars

(* Two requests in flight at once: each handler runs to its next await and  *)
(* the other may run in between.  The session "s1" is one exchange short of *)
(* the history cap; "s2" does not exist yet.                                *)

MaxConcReqs == 3

ConcBodies ==
    {Body(Query("hello", {}), "s1"),
     Body(Query("What about Mile End?", {"mile end"}), "s1"),
     Body(Query("hello", {}), "s2"),
     Body(Query("Do I need to book?", {"book"}), "s2")}

InitConc ==
    /\ LoadedIndex
    /\ SESS = [i \in {"s1"} |-> 1]
    /\ heap = [n \in {1} |-> [NewSession(0) EXCEPT !.turns = EarlierTurns]]
    /\ env = [conc |-> 2, loads |-> 0, reqs |-> MaxConcReqs, time |-> 0,
              bodies |-> ConcBodies,
              clients |-> {Direct},
              qvecs |-> {<<1, 0>>},
              gens |-> {<<"<p>", "answer", "</p>">>}]

SpecConc == InitConc /\ [][ChatNext]_vars

(* Two conversations side by side, one request at a time, while time passes. *)

MaxIsoReqs == 3

IsoBodies ==
    {Body(Query("What about Mile End?", {"mile end"}), "s1"),
     Body(Query("Do I need to book?", {"book"}), "s1"),
     Body(Query("Do I need to book?", {"book"}), "s2"),
     Body(Query("hello", {}), "s2")}

InitIso ==
    /\ Loaded
    /\ env = [conc |-> 1, loads |-> 0, reqs |-> MaxIsoReqs, time |-> MaxTime,
              bodies |-> IsoBodies,
              clients |-> {Direct},
              qvecs |-> {<<1, 0>>},
              gens |-> {<<"<p>", "answer", "</p>">>}]

SpecIso == InitIso /\ [][ChatNext \/ Tick]_vars

-----------------------------------------------------------------------------
(* Properties *)

\* the step in which fetchKB call l settles (resolves or rejects)
Settles(l) == calls[l].pc # "idle" /\ calls'[l].pc = "idle"

\* the step in which fetchKB call l receives the body json
GotBody(l, json) ==
    /\ calls[l].pc = "fetching"
    /\ \/ calls'[l].pc = "embedding" /\ calls'[l].body = json
       \/ /\ calls'[l].pc = "idle"
          /\ last'.status = 200
          /\ last'.error # "parse"
          /\ last'.body = json

\* the chunks of a fetched body
ChunksOfBody(json) == flattenDocsFromKB(json)

\* the step in which chat request r starts
Starts(r) == reqs[r].pc = "idle" /\ nReqs' = nReqs + 1 /\ reqs'[r].n = nReqs'

\* C1: whenever a well-formed snapshot is live (a chat request can run), the
\* chunk set and the vector index are the ones derived from that snapshot.
C1_SameGeneration ==
    WellFormed(KB) =>
        /\ DOCS = flattenDocsFromKB(KB)
        /\ VECTORS = IndexOf(KB)

\* C2: a call that receives a malformed or structurally incomplete payload
\* rejects, and leaves KB, DOCS and VECTORS as they were.
C2_MalformedRejected ==
    [][\A l \in Loaders, json \in Payloads :
          (GotBody(l, json) /\ ~WellFormed(json)) =>
              /\ Settles(l)
              /\ last'.result = "failed"
              /\ <<KB, DOCS, VECTORS>>' = <<KB, DOCS, VECTORS>>]_vars

\* C3: when a call that did not overlap another call rejects (non-OK status,
\* unparsable body, or Embed failure in the rebuild of a well-formed body), KB,
\* DOCS and VECTORS are what they were when the call started.
C3_FailedLoadKeepsSnapshot ==
    [][\A l \in Loaders :
          (/\ Settles(l)
           /\ calls[l].sole
           /\ last'.result = "failed"
           /\ \/ last'.error \in {"status", "parse"}
              \/ last'.error = "embed" /\ WellFormed(last'.body)) =>
              Snapshot' = calls[l].pre]_vars

\* C4: a call that gets the 304 reply is a non-forced call, returns unchanged
\* having made no Embed call, and changes none of KB, DOCS, VECTORS, etag,
\* lastModified.
C4_NotModifiedChangesNothing ==
    [][\A l \in Loaders :
          (Settles(l) /\ last'.status = 304) =>
              /\ ~calls[l].force
              /\ last'.result = "unchanged"
              /\ calls[l].embeds = 0
              /\ UNCHANGED <<KB, DOCS, VECTORS, etag, lastModified>>]_vars

C4_Witness ==
    /\ last.status = 304
    /\ last.result = "unchanged"
    /\ KB = KBA
    /\ VECTORS = IndexOf(KBA)
    /\ etag = KBA.tag

\* C5: the vector index has as many entries as there are chunks, in every state
\* (stated for the states whose snapshot is well-formed).
C5_IndexSizeIsChunkCount == WellFormed(KB) => Len(VECTORS) = Len(DOCS)

\* C6: a rebuild makes one Embed call whose input is every chunk text of the
\* snapshot, and VECTORS changes only in the step that ends that call, to an
\* index holding one entry for each embedding of the batch.
C6_AtomicSwap ==
    [][/\ \A l \in Loaders :
            calls'[l].pc = "embedding" =>
                /\ calls'[l].embeds = 1
                /\ calls'[l].input = TextsOf(flattenDocsFromKB(calls'[l].body))
       /\ VECTORS' # VECTORS =>
            \E l \in Loaders :
                /\ calls[l].pc = "embedding"
                /\ Settles(l)
                /\ Len(VECTORS') = Len(calls[l].input)
                /\ \A i \in 1..Len(VECTORS') :
                      VECTORS'[i].embedding = EmbedOf(calls[l].input[i])]_vars

C6_Witness ==
    /\ last.result = "changed"
    /\ last.body = KBB
    /\ VECTORS = IndexOf(KBB)
    /\ nLoads = 2

\* C7: the hits a request scored, the context it sent to Generate and the
\* sources it returns all come from the one value of VECTORS it read.
C7_OneIndexPerRequest ==
    \A r \in Reqs :
        (reqs[r].branch = "generate" /\ (reqs[r].pc = "generating" \/ reqs[r].status = 200)) =>
            /\ reqs[r].retrieved = TopK(reqs[r].index, reqs[r].qEmb, RETRIEVE_K)
            /\ reqs[r].context = ContextOf(reqs[r].retrieved)
            /\ reqs[r].status = 200 => reqs[r].sources = SourcesOf(reqs[r].retrieved)

C7_Witness ==
    \E r \in Reqs :
        /\ reqs[r].status = 200
        /\ reqs[r].branch = "generate"
        /\ Len(reqs[r].sources) = RETRIEVE_K
        /\ VECTORS # reqs[r].index

\* C8: when a call that fetched a well-formed body resolves true, KB is the body
\* it fetched and VECTORS holds exactly one entry per chunk of that body.
C8_ChangedMeansRebuilt ==
    [][\A l \in Loaders :
          (Settles(l) /\ last'.result = "changed" /\ WellFormed(last'.body)) =>
              /\ KB' = last'.body
              /\ Len(VECTORS') = Len(ChunksOfBody(last'.body))
              /\ \A i \in 1..Len(VECTORS') :
                    VECTORS'[i].meta = ChunksOfBody(last'.body)[i]]_vars

\* C9: a request with a non-empty query that starts while no rebuild has ever
\* completed (the index is still empty) is answered 503 without a provider call
\* and without creating or touching a session; stated for the states in which
\* the body fetched so far is well-formed or absent.
C9_NotReadyBeforeFirstLoad ==
    [][\A r \in Reqs :
          (/\ Starts(r)
           /\ reqs'[r].query # NoQuery
           /\ VECTORS = <<>>
           /\ KB.json = "null" \/ WellFormed(KB)) =>
              /\ reqs'[r].status = 503
              /\ reqs'[r].embeds = 0
              /\ reqs'[r].gens = 0
              /\ UNCHANGED <<SESS, heap>>]_vars

\* C10: while a session object lives, a slot that holds a value keeps holding
\* one, and a slot changes only to the track or day named in the query of the
\* request that starts in that step on that session.
C10_SlotsMoveForward ==
    [][\A n \in DOMAIN heap \cap DOMAIN heap' :
          LET old == heap[n].slots
              new == heap'[n].slots
          IN  /\ old.trackId # None => new.trackId # None
              /\ old.day # None => new.day # None
              /\ new.trackId # old.trackId =>
                    \E r \in Reqs : /\ Starts(r)
                                    /\ reqs'[r].sess = n
                                    /\ detectTrackIdFromText(reqs'[r].query) = new.trackId
              /\ new.day # old.day =>
                    \E r \in Reqs : /\ Starts(r)
                                    /\ reqs'[r].sess = n
                                    /\ extractDayFromText(reqs'[r].query) = new.day]_vars

C10_Witness ==
    \E i \in DOMAIN SESS :
        LET s == heap[SESS[i]]
        IN  /\ s.slots.trackId = "mile_end"
            /\ s.slots.day = None
            /\ Len(s.turns) = 4
            /\ s.turns[1].content = <<"What about Mile End?">>
            /\ s.turns[3].content = <<"hello">>

\* s is an initial part of t
IsPrefix(s, t) == Len(s) <= Len(t) /\ SubSeq(t, 1, Len(s)) = s

\* the request r is answered with 200 in this step
Answers(r) == reqs'[r].status = 200 /\ (Starts(r) \/ reqs[r].pc = "generating")

\* the request r starts in this step and reaches the dialogue policy
Upserts(r) == Starts(r) /\ reqs'[r].sid # ""

\* C11: a request for an id whose session was active within the last 30 minutes
\* gets that same session object with its turns and its slots; a request for
\* an id whose session is idle for longer (or that has none) gets a new object
\* with no turns and no slots but those of this request, the old one leaves the
\* map, and an eligibility query that names no track is asked for the track.
C11_GetOrCreate ==
    [][\A r \in Reqs :
          Upserts(r) =>
              LET id == reqs'[r].sid
                  q == reqs'[r].query
                  new == heap'[SESS'[id]]
              IN  /\ reqs'[r].sess = SESS'[id]
                  /\ new.updatedAt = now
                  /\ IF id \in DOMAIN SESS /\ now - heap[SESS[id]].updatedAt <= SESS_TTL_MS
                     THEN /\ SESS'[id] = SESS[id]
                          /\ IsPrefix(heap[SESS[id]].turns, new.turns)
                          /\ detectTrackIdFromText(q) = None =>
                                new.slots.trackId = heap[SESS[id]].slots.trackId
                          /\ extractDayFromText(q) = None =>
                                new.slots.day = heap[SESS[id]].slots.day
                     ELSE /\ id \in DOMAIN SESS =>
                                SESS'[id] # SESS[id] /\ SESS[id] \notin DOMAIN heap'
                          /\ new.turns # <<>> =>
                                Len(new.turns) = 2 /\ new.turns[1].content = <<q.text>>
                          /\ new.slots = [trackId |-> detectTrackIdFromText(q),
                                          day |-> extractDayFromText(q)]
                          /\ (/\ questionNeedsEligibility(q)
                              /\ detectTrackIdFromText(q) = None
                              /\ fastRouteReply(q, KB) = NoReply) =>
                                reqs'[r].response = AskTrackHtml]_vars

\* the session that named Mile End idled out; the booking query that follows is
\* asked for the track again
C11_Witness ==
    \E r \in Reqs :
        /\ reqs[r].evicted
        /\ reqs[r].query.text = "can I book Saturday?"
        /\ reqs[r].status = 200
        /\ reqs[r].response = AskTrackHtml
        /\ heap[SESS[reqs[r].sid]].slots = [trackId |-> None, day |-> "Saturday"]
        /\ Len(heap[SESS[reqs[r].sid]].turns) = 2

\* kept is the last SESS_MAX_TURNS entries of all, or all of it if it is shorter
KeepsNewest(all, kept) ==
    /\ Len(kept) = (IF Len(all) > SESS_MAX_TURNS THEN SESS_MAX_TURNS ELSE Len(all))
    /\ \A i \in 1..Len(kept) : kept[i] = all[Len(all) - Len(kept) + i]

\* the turns a session object holds before the step (none: the object is new)
TurnsBefore(n) == IF n \in DOMAIN heap THEN heap[n].turns ELSE <<>>

\* the two turns of the exchange that request r has just answered
ExchangeOf(r) ==
    <<[role |-> "user", content |-> <<reqs'[r].query.text>>],
      [role |-> "assistant", content |-> stripHtmlToText(reqs'[r].response)]>>

\* C12: a session never holds more than SESS_MAX_TURNS turns; a step that
\* does not answer a request leaves every history alone, and the step that answers
\* one leaves the old history followed by the appended turns, cut down from the
\* oldest end to the last SESS_MAX_TURNS entries.
C12_HistoryBounded ==
    [][\A n \in DOMAIN heap' :
          /\ Len(heap'[n].turns) <= SESS_MAX_TURNS
          /\ IF \E r \in Reqs : Answers(r) /\ reqs'[r].sess = n
             THEN \A r \in Reqs :
                      (Answers(r) /\ reqs'[r].sess = n) =>
                          KeepsNewest(TurnsBefore(n) \o ExchangeOf(r), heap'[n].turns)
             ELSE heap'[n].turns = TurnsBefore(n)]_vars

\* nine exchanges in: the first exchange is gone, the rest is there in order
C12_Witness ==
    /\ "s1" \in DOMAIN SESS
    /\ nReqs = 2
    /\ LET t == heap[SESS["s1"]].turns
       IN  /\ Len(t) = SESS_MAX_TURNS
           /\ SubSeq(t, 1, 12) = SubSeq(EarlierTurns, 3, 14)
           /\ t[13].content = <<"hello">>
           /\ t[15].content = <<"where are your tracks">>
           /\ t[16].role = "assistant"

\* a step of the sweep timer that removes something: the map changes and no
\* request starts
Sweeps == SESS' # SESS /\ nReqs' = nReqs

\* C13: right after a sweep the map holds no session with
\* now - updatedAt > SESS_TTL_MS, and every session idle for at most
\* SESS_TTL_MS is still in the map, the same object with the same contents.
C13_SweepExact ==
    [][Sweeps =>
          /\ now' = now
          /\ \A i \in DOMAIN SESS' : ~(now' - heap'[SESS'[i]].updatedAt > SESS_TTL_MS)
          /\ \A i \in DOMAIN SESS :
                IF now - heap[SESS[i]].updatedAt > SESS_TTL_MS
                THEN i \notin DOMAIN SESS'
                ELSE /\ i \in DOMAIN SESS'
                     /\ SESS'[i] = SESS[i]
                     /\ heap'[SESS'[i]] = heap[SESS[i]]]_vars

\* two sessions were created (the second object has reference 2); the sweep at
\* time 2 removed the one last active at time 0 and kept the one active at time 1
C13_Witness ==
    /\ DOMAIN SESS = {inferSessionId(Direct)}
    /\ SESS[inferSessionId(Direct)] = 2
    /\ DOMAIN heap = {2}
    /\ now = 2
    /\ heap[2].updatedAt = 1
    /\ Len(heap[2].turns) = 2

\* the client network address: the first x-forwarded-for entry, else the socket
\* address
ClientAddress(c) == IF c.xff # <<>> /\ c.xff[1] # "" THEN c.xff[1] ELSE c.remote

\* C14: a request carrying a non-empty sessionId is identified by that value; and
\* a request without one is identified like the request before it whenever that
\* one had no sessionId either and came from the same address with the same
\* user-agent: both work on the same session.
C14_Identify ==
    [][\A r \in Reqs :
          Upserts(r) =>
              LET inp == reqs'[r].input
                  prev == reqs[r]
              IN  /\ inp.body.sessionId # "" => reqs'[r].sid = inp.body.sessionId
                  /\ (/\ inp.body.sessionId = ""
                      /\ prev.sid # ""
                      /\ prev.input.body.sessionId = ""
                      /\ ClientAddress(prev.input.client) = ClientAddress(inp.client)
                      /\ prev.input.client.ua = inp.client.ua) =>
                         /\ reqs'[r].sid = prev.sid
                         /\ reqs'[r].sess = prev.sess
                         /\ SESS'[reqs'[r].sid] = SESS[prev.sid]]_vars

\* two requests without sessionId from 203.0.113.5 with agent ua1, the later one
\* through a longer proxy chain, have built one session of two exchanges
C14_Witness ==
    \E r \in Reqs :
        /\ reqs[r].input.client = Client(<<"203.0.113.5", "10.0.0.9">>, "10.0.0.8", "ua1")
        /\ reqs[r].input.body.sessionId = ""
        /\ reqs[r].sid = inferSessionId(Client(<<"203.0.113.5">>, "10.0.0.7", "ua1"))
        /\ reqs[r].status = 200
        /\ DOMAIN SESS = {reqs[r].sid}
        /\ Len(heap[SESS[reqs[r].sid]].turns) = 4

\* the query q matches a topic that has a canned answer under snapshot kb
MatchesFastTopic(q, kb) ==
    \/ hasAny(q, locationTopics) /\ kb.tracks # <<>>
    \/ hasAny(q, dashboardTopics)
    \/ hasAny(q, mileEndTopics)

\* C15: a request whose query matches a fast-route topic is answered at once,
\* with no Embed and no Generate call and no sources, and its content is the
\* canned text for the query and the snapshot, whatever the session's slots are.
C15_FastRoute ==
    \A r \in Reqs :
        (reqs[r].sid # "" /\ MatchesFastTopic(reqs[r].query, KB)) =>
            /\ reqs[r].pc = "idle"
            /\ reqs[r].status = 200
            /\ reqs[r].branch = "fast"
            /\ reqs[r].embeds = 0
            /\ reqs[r].gens = 0
            /\ reqs[r].sources = <<>>
            /\ reqs[r].response # NoReply
            /\ reqs[r].response = enforceGBP(fastRouteReply(reqs[r].query, KB))

\* the venue listing given to a session whose track slot is mile_end
C15_Witness ==
    \E r \in Reqs :
        /\ reqs[r].query.text = "where are your tracks"
        /\ reqs[r].status = 200
        /\ reqs[r].response =
              <<"We currently run tracks in ", "<strong>", "gillingham", " and ",
                "mile_end", "</strong>", ".", "<br>", "Which one are you looking at?">>
        /\ heap[SESS[reqs[r].sid]].slots.trackId = "mile_end"
        /\ Len(heap[SESS[reqs[r].sid]].turns) = 4

\* the query is classified as needing disambiguation: it has a booking, payment
\* or availability keyword and no general-topic keyword
NeedsDisambiguation(q) == hasAny(q, eligibilityTopics) /\ ~hasAny(q, generalTopics)

\* the dialogue state FullyResolved: the track is known, and so is the day when
\* the track is mile_end
FullyResolved(sl) ==
    sl.trackId # None /\ (sl.trackId = "mile_end" => sl.day # None)

\* C16: a request that reaches the eligibility check (no fast route answers it)
\* with a query needing disambiguation, in a session that is not FullyResolved,
\* ends in the step it started with the clarifying question: the track question
\* when no track is known, else the day question; no Embed and no Generate call
\* is made.  "I want to book for Saturday" with no track gets the track question.
C16_EligibilityCheck ==
    [][\A r \in Reqs :
          Upserts(r) =>
              LET q == reqs'[r].query
                  sl == heap'[SESS'[reqs'[r].sid]].slots
              IN  /\ (/\ NeedsDisambiguation(q)
                      /\ ~MatchesFastTopic(q, KB)
                      /\ ~FullyResolved(sl)) =>
                         /\ reqs'[r].pc = "idle"
                         /\ reqs'[r].status = 200
                         /\ reqs'[r].embeds = 0
                         /\ reqs'[r].gens = 0
                         /\ reqs'[r].sources = <<>>
                         /\ reqs'[r].response =
                               (IF sl.trackId = None THEN AskTrackHtml ELSE AskDayHtml)
                  /\ (q.text = "I want to book for Saturday" /\ sl.trackId = None) =>
                         reqs'[r].response = AskTrackHtml /\ reqs'[r].gens = 0]_vars

\* the session that named Mile End is asked for the day by "Do I need to book?"
C16_Witness ==
    \E r \in Reqs :
        /\ reqs[r].query.text = "Do I need to book?"
        /\ reqs[r].status = 200
        /\ reqs[r].response = AskDayHtml
        /\ reqs[r].embeds = 0
        /\ reqs[r].gens = 0
        /\ heap[SESS[reqs[r].sid]].slots = [trackId |-> "mile_end", day |-> None]
        /\ heap[SESS[reqs[r].sid]].turns[1].content = <<"What about Mile End?">>

\* C17: a request whose query has a general-topic keyword, or has neither a
\* general-topic nor an eligibility keyword, is never answered with the track
\* question or the day question, whatever the slots of its session.
C17_GeneralNeverAsks ==
    \A r \in Reqs :
        (\/ hasAny(reqs[r].query, generalTopics)
         \/ ~hasAny(reqs[r].query, eligibilityTopics)) =>
            /\ reqs[r].branch \notin {"ask_track", "ask_day"}
            /\ reqs[r].response \notin {AskTrackHtml, AskDayHtml}

\* a query with both a general keyword (helmet) and an eligibility keyword (book)
\* is answered by generation in a session that knows no track
C17_Witness ==
    \E r \in Reqs :
        /\ reqs[r].query.text = "Is the helmet included when I book?"
        /\ reqs[r].status = 200
        /\ reqs[r].branch = "generate"
        /\ reqs[r].gens = 1
        /\ heap[SESS[reqs[r].sid]].slots = [trackId |-> None, day |-> None]

\* C18: "What about Mile End?" sets the track slot to mile_end; when the request
\* that follows it in that session (still within the timeout) is "can I book
\* Saturday?", the track is still mile_end, the day becomes Saturday, and the
\* request goes on to retrieval and generation: no question is asked.
C18_SlotsCarryOver ==
    [][\A r \in Reqs :
          Upserts(r) =>
              LET id == reqs'[r].sid
                  q == reqs'[r].query
                  new == heap'[SESS'[id]]
              IN  /\ q.text = "What about Mile End?" => new.slots.trackId = "mile_end"
                  /\ (/\ q.text = "can I book Saturday?"
                      /\ reqs[r].query.text = "What about Mile End?"
                      /\ reqs[r].sid = id
                      /\ id \in DOMAIN SESS
                      /\ now - heap[SESS[id]].updatedAt <= SESS_TTL_MS
                      /\ Len(heap[SESS[id]].turns) = 2
                      /\ heap[SESS[id]].turns[1].content = <<"What about Mile End?">>) =>
                         /\ new.slots = [trackId |-> "mile_end", day |-> "Saturday"]
                         /\ reqs'[r].branch = "generate"
                         /\ reqs'[r].pc = "embedding"
                         /\ reqs'[r].embeds = 1
                         /\ reqs'[r].response = <<>>
                         /\ new.turns = heap[SESS[id]].turns]_vars

\* the second turn has been answered by generation from five sources
C18_Witness ==
    \E r \in Reqs :
        /\ reqs[r].query.text = "can I book Saturday?"
        /\ reqs[r].status = 200
        /\ reqs[r].branch = "generate"
        /\ reqs[r].gens = 1
        /\ Len(reqs[r].sources) = RETRIEVE_K
        /\ LET s == heap[SESS[reqs[r].sid]]
           IN  /\ s.slots = [trackId |-> "mile_end", day |-> "Saturday"]
               /\ Len(s.turns) = 4
               /\ s.turns[1].content = <<"What about Mile End?">>
               /\ s.turns[2].content = stripHtmlToText(MileEndHtml)
               /\ s.turns[3].content = <<"can I book Saturday?">>
               /\ s.turns[4].content = <<"answer">>

\* C19: when a request is answered with 200, on the fast route, with the track
\* question, with the day question or by generation, the history of its session
\* ends with the user turn holding the query followed by the assistant turn
\* holding the text of the response (stated for a session the map still holds).
C19_EveryBranchAppends ==
    [][\A r \in Reqs :
          (Answers(r) /\ reqs'[r].sid \in DOMAIN SESS'
                      /\ SESS'[reqs'[r].sid] = reqs'[r].sess) =>
              LET t == heap'[reqs'[r].sess].turns
              IN  /\ reqs'[r].branch \in {"fast", "ask_track", "ask_day", "generate"}
                  /\ reqs'[r].response # <<>>
                  /\ Len(t) >= 2
                  /\ Len(t) >= Len(TurnsBefore(reqs'[r].sess))
                  /\ t[Len(t) - 1] = [role |-> "user", content |-> <<reqs'[r].query.text>>]
                  /\ t[Len(t)] = [role |-> "assistant",
                                  content |-> stripHtmlToText(reqs'[r].response)]]_vars

\* the track question and then the Mile End fast route, both recorded
C19_Witness ==
    \E i \in DOMAIN SESS :
        LET t == heap[SESS[i]].turns
        IN  /\ Len(t) = 4
            /\ t[1] = [role |-> "user", content |-> <<"I want to book for Saturday">>]
            /\ t[2] = [role |-> "assistant", content |-> stripHtmlToText(AskTrackHtml)]
            /\ t[3] = [role |-> "user", content |-> <<"What about Mile End?">>]
            /\ t[4] = [role |-> "assistant", content |-> stripHtmlToText(MileEndHtml)]

\* two scores are equal
ScoreEqual(s, t) == ~ScoreGreater(s, t) /\ ~ScoreGreater(t, s)

\* the position in index of a retrieved entry
PosIn(index, v) == CHOOSE m \in 1..Len(index) : index[m] = v

\* ret is the k highest-scoring entries of index for the query vector, in
\* non-increasing score order, equal scores in index order
IsTopK(ret, index, qEmb, k) ==
    /\ Len(ret) = (IF Len(index) < k THEN Len(index) ELSE k)
    /\ \A i \in 1..Len(ret) :
          /\ \E m \in 1..Len(index) : index[m] = ret[i].v
          /\ ret[i].score = cosine(qEmb, ret[i].v.embedding)
    /\ \A i, j \in 1..Len(ret) :
          i < j =>
              /\ ~ScoreGreater(ret[j].score, ret[i].score)
              /\ ScoreEqual(ret[i].score, ret[j].score) =>
                    PosIn(index, ret[i].v) < PosIn(index, ret[j].v)
    /\ \A m \in 1..Len(index) :
          (\A i \in 1..Len(ret) : ret[i].v # index[m]) =>
              LET sm == cosine(qEmb, index[m].embedding)
                  lowest == ret[Len(ret)]
              IN  /\ ~ScoreGreater(sm, lowest.score)
                  /\ ScoreEqual(sm, lowest.score) => PosIn(index, lowest.v) < m

\* C20: retrieve on an empty index returns the empty sequence at once, with no
\* Embed call and no error; on a non-empty index it makes one Embed call and
\* returns at most k entries: the k highest-scoring ones of the index, in
\* non-increasing score order, equal scores in original chunk order.
C20_Retrieve ==
    [][\A r \in Reqs :
          /\ (Upserts(r) /\ reqs'[r].branch = "generate") =>
                IF VECTORS = <<>>
                THEN /\ reqs'[r].pc = "generating"
                     /\ reqs'[r].embeds = 0
                     /\ reqs'[r].retrieved = <<>>
                     /\ reqs'[r].status = 0
                ELSE reqs'[r].pc = "embedding" /\ reqs'[r].embeds = 1
          /\ (reqs[r].pc = "embedding" /\ reqs'[r].pc = "generating") =>
                /\ Len(reqs'[r].retrieved) <= RETRIEVE_K
                /\ IsTopK(reqs'[r].retrieved, VECTORS, reqs'[r].qEmb, RETRIEVE_K)]_vars

\* all eleven chunks score the same for the zero query vector: the five returned
\* are the first five of the index, in index order
C20_Witness ==
    \E r \in Reqs :
        /\ reqs[r].pc = "generating"
        /\ reqs[r].qEmb = <<0, 0>>
        /\ Len(reqs[r].index) = 11
        /\ Len(reqs[r].retrieved) = RETRIEVE_K
        /\ \A i \in 1..RETRIEVE_K : reqs[r].retrieved[i].v = reqs[r].index[i]

\* C21: a request calls Embed at most once and Generate at most once; a step
\* that ends a pending provider call either moves the request on (Embed
\* resolved: one Generate call follows), answers it with 200 and a complete text,
\* or answers it with 500 and no text and no sources; a request awaiting a
\* provider never goes back to an earlier call.
C21_ProviderFailure ==
    [][\A r \in Reqs :
          /\ reqs'[r].embeds <= 1
          /\ reqs'[r].gens <= 1
          /\ (reqs[r].pc = "embedding" /\ reqs'[r] # reqs[r]) =>
                \/ /\ reqs'[r].pc = "generating"
                   /\ reqs'[r].embeds = 1
                   /\ reqs'[r].gens = 1
                   /\ reqs'[r].status = 0
                \/ /\ reqs'[r].pc = "idle"
                   /\ reqs'[r].status = 500
                   /\ reqs'[r].gens = 0
                   /\ reqs'[r].response = <<>>
                   /\ reqs'[r].sources = <<>>
          /\ (reqs[r].pc = "generating" /\ reqs'[r] # reqs[r]) =>
                /\ reqs'[r].pc = "idle"
                /\ \/ /\ reqs'[r].status = 200
                      /\ reqs'[r].response # <<>>
                      /\ \E content \in GenTexts :
                            reqs'[r].response \in {enforceGBP(Trim(content)), FallbackText}
                   \/ /\ reqs'[r].status = 500
                      /\ reqs'[r].response = <<>>
                      /\ reqs'[r].sources = <<>>]_vars

\* Generate failed after Embed had succeeded: 500, nothing returned, one call each
C21_Witness ==
    \E r \in Reqs :
        /\ reqs[r].status = 500
        /\ reqs[r].pc = "idle"
        /\ reqs[r].embeds = 1
        /\ reqs[r].gens = 1
        /\ Len(reqs[r].retrieved) = RETRIEVE_K
        /\ reqs[r].response = <<>>
        /\ reqs[r].sources = <<>>

\* C22: a fetchKB call made by the reload route runs only on behalf of a request
\* that carries the valid credential.
C22_ReloadNeedsCredential ==
    \A l \in Loaders :
        calls[l].pc # "idle" => calls[l].by \in {"internal", "valid"}

\* C23: a request without a query, or with an empty one, is answered with 400
\* in the step it arrives, with or without a snapshot loaded; it leaves the
\* session map and every session as they were and calls no provider.
C23_MissingQuery ==
    [][\A r \in Reqs :
          (Starts(r) /\ reqs'[r].input.body.query = NoQuery) =>
              /\ reqs'[r].status = 400
              /\ reqs'[r].pc = "idle"
              /\ reqs'[r].embeds = 0
              /\ reqs'[r].gens = 0
              /\ reqs'[r].response = <<>>
              /\ reqs'[r].sid = ""
              /\ SESS' = SESS
              /\ heap' = heap]_vars

\* 400 with no snapshot loaded
C23_Witness ==
    \E r \in Reqs :
        /\ reqs[r].status = 400
        /\ KB = KBNull
        /\ nReqs = 1

C25_RefreshKeepsTrying ==
    /\ <>(nLoads = MaxLiveLoads)
    /\ <>[](KB.json # "null")

\* a refresh in flight after a failed warmup and failed refreshes, no
\* snapshot held and no request made
C25_Witness ==
    \E l \in Loaders :
        /\ calls[l].pc = "fetching"
        /\ ~calls[l].force
        /\ nLoads = MaxLiveLoads
        /\ KB = KBNull
        /\ last.result = "failed"
        /\ nReqs = 0

\* the pairs (query vector, chunk embedding) that retrieve can score
ScoredPairs ==
    {<<q, VECTORS[i].embedding>> : q \in env.qvecs, i \in 1..Len(VECTORS)}

\* the squared norm of a vector
Norm2(a) == Dot(a, a, 1)

\* C26: for every pair of vectors that retrieve scores, cosine gives the same
\* score with the arguments exchanged, and every score a request holds is the
\* score of its pair taken in the other order.
C26_CosineSymmetric ==
    /\ \A p \in ScoredPairs : cosine(p[1], p[2]) = cosine(p[2], p[1])
    /\ \A r \in Reqs : \A i \in 1..Len(reqs[r].retrieved) :
          reqs[r].retrieved[i].score =
              cosine(reqs[r].retrieved[i].v.embedding, reqs[r].qEmb)

\* a request holds a non-zero score of two vectors of different norms
C26_Witness ==
    \E r \in Reqs : \E i \in 1..Len(reqs[r].retrieved) :
        /\ reqs[r].pc = "generating"
        /\ reqs[r].retrieved[i].score.dot # 0
        /\ Norm2(reqs[r].qEmb) # Norm2(reqs[r].retrieved[i].v.embedding)

\* C27: for a query needing disambiguation that reaches the eligibility check
\* (no fast route answers it), with sl the session's slots after the update
\* from this message: track gillingham, day known or not, goes on to retrieval
\* and generation with no question asked; track mile_end without a day gets
\* the day question; no track gets the track question, day known or not.  The
\* day question is only ever given to a session whose track is mile_end.
C27_DayOnlyForMileEnd ==
    [][\A r \in Reqs :
          Upserts(r) =>
              LET q == reqs'[r].query
                  sl == heap'[SESS'[reqs'[r].sid]].slots
              IN  /\ (NeedsDisambiguation(q) /\ ~MatchesFastTopic(q, KB)) =>
                         /\ sl.trackId = "gillingham" =>
                                /\ reqs'[r].branch = "generate"
                                /\ reqs'[r].pc \in {"embedding", "generating"}
                                /\ reqs'[r].status = 0
                                /\ reqs'[r].response = <<>>
                         /\ (sl.trackId = "mile_end" /\ sl.day = None) =>
                                /\ reqs'[r].pc = "idle"
                                /\ reqs'[r].response = AskDayHtml
                         /\ sl.trackId = None =>
                                /\ reqs'[r].pc = "idle"
                                /\ reqs'[r].response = AskTrackHtml
                  /\ reqs'[r].response = AskDayHtml =>
                         sl.trackId = "mile_end" /\ sl.day = None]_vars

\* a deposit question about Gillingham goes to retrieval in a session that
\* knows no day
C27_Witness ==
    \E r \in Reqs :
        /\ reqs[r].query.text = "Can I pay a deposit at Gillingham?"
        /\ reqs[r].pc = "embedding"
        /\ reqs[r].sid # ""
        /\ heap[SESS[reqs[r].sid]].slots = [trackId |-> "gillingham", day |-> None]

\* text t with every dollar sign replaced by a pound sign
Pounds(t) == [i \in 1..Len(t) |-> IF t[i] = "$" THEN "£" ELSE t[i]]

\* C28: the text of every 200 response, whichever branch produced it, holds no
\* dollar sign and is left as it is by a further normalisation; a generated
\* answer is the provider's trimmed content with every dollar sign replaced by
\* a pound sign, or the fixed fallback sentence when that content is empty; and
\* normalising twice equals normalising once on every text the provider returns.
C28_CurrencyNormalized ==
    /\ \A r \in Reqs :
          reqs[r].status = 200 =>
              /\ reqs[r].response # <<>>
              /\ \A i \in 1..Len(reqs[r].response) : reqs[r].response[i] # "$"
              /\ enforceGBP(reqs[r].response) = reqs[r].response
              /\ reqs[r].branch = "generate" =>
                    \E c \in env.gens :
                        reqs[r].response =
                            (IF Trim(c) = <<>> THEN FallbackText ELSE Pounds(Trim(c)))
    /\ \A c \in env.gens : enforceGBP(enforceGBP(c)) = enforceGBP(c)

\* a generated answer that came with a dollar sign is returned with a pound sign
C28_Witness ==
    \E r \in Reqs :
        /\ reqs[r].status = 200
        /\ reqs[r].branch = "generate"
        /\ reqs[r].response = <<"from ", "£", "12">>

\* C29: a call sends If-None-Match exactly when it is not forced and an etag is
\* stored, and then it sends the stored etag; the same for If-Modified-Since and
\* lastModified.  A forced call, and a call made before any token is stored,
\* sends neither, and a forced call is never answered with 304.
C29_ConditionalHeaders ==
    [][\A l \in Loaders :
          /\ (calls[l].pc = "idle" /\ calls'[l].pc = "fetching") =>
                /\ calls'[l].inm # NoTag <=> (~calls'[l].force /\ etag # NoTag)
                /\ calls'[l].ims # NoTag <=> (~calls'[l].force /\ lastModified # NoTag)
                /\ calls'[l].inm \in {NoTag, etag}
                /\ calls'[l].ims \in {NoTag, lastModified}
          /\ (Settles(l) /\ calls[l].force) => last'.status # 304]_vars

\* a forced call in flight without preconditions although both tokens are stored
C29_Witness ==
    \E l \in Loaders :
        /\ calls[l].pc = "fetching"
        /\ calls[l].force
        /\ etag # NoTag
        /\ lastModified # NoTag
        /\ calls[l].inm = NoTag
        /\ calls[l].ims = NoTag

\* the score 0: zero numerator over the denominator 1
ZeroScore == [dot |-> 0, den2 |-> 1]

\* C30: for every pair of vectors that retrieve scores, the denominator of the
\* score is never zero, and when either vector has zero norm the score is 0;
\* every score a request holds has a non-zero denominator and is 0 when the
\* query vector or the chunk embedding has zero norm.
C30_ZeroNormGuard ==
    /\ \A p \in ScoredPairs :
          /\ cosine(p[1], p[2]).den2 > 0
          /\ (Norm2(p[1]) = 0 \/ Norm2(p[2]) = 0) => cosine(p[1], p[2]) = ZeroScore
    /\ \A r \in Reqs : \A i \in 1..Len(reqs[r].retrieved) :
          /\ reqs[r].retrieved[i].score.den2 > 0
          /\ (\/ Norm2(reqs[r].qEmb) = 0
              \/ Norm2(reqs[r].retrieved[i].v.embedding) = 0) =>
                 reqs[r].retrieved[i].score = ZeroScore

\* a request has scored the zero query vector and holds the score 0 for a chunk
\* whose embedding is not zero
C30_Witness ==
    \E r \in Reqs : \E i \in 1..Len(reqs[r].retrieved) :
        /\ reqs[r].pc = "generating"
        /\ reqs[r].qEmb = <<0, 0>>
        /\ Norm2(reqs[r].retrieved[i].v.embedding) # 0
        /\ reqs[r].retrieved[i].score = ZeroScore

\* C31: when a non-forced call that did not overlap another call is answered
\* 304 while a well-formed snapshot is held, VECTORS is the index built from
\* the snapshot in KB.
C31_TokenMeansIndexed ==
    [][\A l \in Loaders :
          (/\ Settles(l)
           /\ last'.status = 304
           /\ calls[l].sole
           /\ WellFormed(KB)) =>
              VECTORS = IndexOf(KB)]_vars

\* C32: once KB is not null, no step makes it null again.
C32_ReadinessMonotone ==
    [][KB.json # "null" => KB'.json # "null"]_vars

\* C33: when the Embed call of a Load of a well-formed body resolves as the
\* last call in flight, while KB is well-formed and DOCS and VECTORS are those of KB (a newer Load
\* has finished its rebuild), KB, DOCS and VECTORS still derive from the one
\* body in KB afterwards: the late response does not overwrite the index.
C33_OverlapConverges ==
    [][\A l \in Loaders :
          (/\ calls[l].pc = "embedding"
           /\ Settles(l)
           /\ last'.result = "changed"
           /\ \A o \in Loaders : calls'[o].pc = "idle"
           /\ WellFormed(calls[l].body)
           /\ WellFormed(KB)
           /\ DOCS = flattenDocsFromKB(KB)
           /\ VECTORS = IndexOf(KB)) =>
              /\ DOCS' = flattenDocsFromKB(KB')
              /\ VECTORS' = IndexOf(KB')]_vars

\* C34: every entry of the index carries the id of its chunk and the embedding
\* that Embed returns for the text of its chunk.
C34_EntryPairsChunk ==
    \A i \in 1..Len(VECTORS) :
        /\ VECTORS[i].id = VECTORS[i].meta.id
        /\ VECTORS[i].embedding = EmbedOf(VECTORS[i].meta.text)

\* C35: a request that finds its session FullyResolved is answered with
\* neither the track question nor the day question.
C35_NeverBackwards ==
    [][\A r \in Reqs :
          (/\ Upserts(r)
           /\ reqs'[r].sid \in DOMAIN SESS
           /\ SESS[reqs'[r].sid] = reqs'[r].sess
           /\ FullyResolved(heap[reqs'[r].sess].slots)) =>
              reqs'[r].response \notin {AskTrackHtml, AskDayHtml}]_vars

\* a history made of complete exchanges: user, assistant, user, assistant, ...
CompleteExchanges(t) ==
    /\ Len(t) % 2 = 0
    /\ \A i \in 1..Len(t) : t[i].role = (IF i % 2 = 1 THEN "user" ELSE "assistant")

\* C36: whenever a handler is suspended or done, every session object holds
\* complete exchanges only (even length, user and assistant alternating, user
\* first), also when the cap has cut the history and when two requests of one
\* session are in flight together; the step that answers a request leaves its
\* query and the response chosen for it as the last two turns, next to each other.
C36_CompleteExchanges ==
    [][/\ \A n \in DOMAIN heap : CompleteExchanges(heap[n].turns)
       /\ \A n \in DOMAIN heap' : CompleteExchanges(heap'[n].turns)
       /\ \A r \in Reqs :
             Answers(r) =>
                 LET t == heap'[reqs'[r].sess].turns
                 IN  /\ Len(t) >= 2
                     /\ SubSeq(t, Len(t) - 1, Len(t)) = ExchangeOf(r)
                     /\ KeepsNewest(TurnsBefore(reqs'[r].sess) \o ExchangeOf(r), t)]_vars

\* the second request for "s1" started while the first was awaiting the provider
\* and got the Mile End reply at once; the first was answered afterwards; the cap
\* has removed the oldest exchange
C36_Witness ==
    /\ reqs["r1"].n = 1 /\ reqs["r2"].n = 2
    /\ reqs["r1"].sid = "s1" /\ reqs["r2"].sid = "s1"
    /\ reqs["r1"].pc = "idle" /\ reqs["r2"].pc = "idle"
    /\ reqs["r1"].status = 200 /\ reqs["r2"].status = 200
    /\ reqs["r1"].branch = "generate" /\ reqs["r2"].branch = "fast"
    /\ LET t == heap[SESS["s1"]].turns
       IN  /\ Len(t) = SESS_MAX_TURNS
           /\ SubSeq(t, 1, 12) = SubSeq(EarlierTurns, 3, 14)
           /\ t[13].content = <<"What about Mile End?">>
           /\ t[14].content = stripHtmlToText(MileEndHtml)
           /\ t[15].content = <<"hello">>
           /\ t[16].content = stripHtmlToText(reqs["r1"].response)

\* the step in which request r ends in the catch block
Fails(r) == reqs[r].pc \in {"embedding", "generating"} /\ reqs'[r].status = 500

\* another request starts on, or answers for, the session object n in this step
OtherActsOn(r, n) ==
    \E o \in Reqs \ {r} : (Starts(o) \/ Answers(o)) /\ reqs'[o].sess = n

\* C37: a request that goes to the provider appends nothing until it is
\* answered: the step that starts it changes the slots named in the query and
\* the activity time of its session and leaves the turns as they were, and every
\* later step up to and including the one that ends it with status 500 leaves
\* the session object as it is.
C37_ErrorLeavesHistory ==
    [][\A r \in Reqs :
          /\ (Starts(r) /\ reqs'[r].pc # "idle") =>
                LET n == reqs'[r].sess
                    q == reqs'[r].query
                IN  /\ heap'[n].turns = TurnsBefore(n)
                    /\ heap'[n].updatedAt = now
                    /\ heap'[n].slots =
                         UpdateSlots(IF n \in DOMAIN heap THEN heap[n].slots
                                     ELSE NewSession(now).slots, q)
          /\ (reqs[r].pc # "idle" /\ ~Answers(r) /\ ~OtherActsOn(r, reqs[r].sess)) =>
                /\ Fails(r) => reqs'[r].response = <<>>
                /\ reqs[r].sess \in DOMAIN heap' =>
                      heap'[reqs[r].sess] = heap[reqs[r].sess]]_vars

\* "hello" was answered; the question about Gillingham then ended with status
\* 500: the history is the one exchange of before, the track slot is set
C37_Witness ==
    /\ nReqs = 2
    /\ reqs["r1"].status = 500
    /\ reqs["r1"].pc = "idle"
    /\ reqs["r1"].query.text = "Can I pay a deposit at Gillingham?"
    /\ "s1" \in DOMAIN SESS
    /\ SESS["s1"] = reqs["r1"].sess
    /\ LET s == heap[SESS["s1"]]
       IN  /\ Len(s.turns) = 2
           /\ s.turns[1].content = <<"hello">>
           /\ s.slots.trackId = "gillingham"

\* request r takes a step: it starts, resumes or ends
Acts(r) == reqs'[r] # reqs[r]

\* C38: a step of a request resolved to the id X leaves every other id of the
\* map where it is, on the same object with the same turns, slots and activity
\* time, and creates no other id; the reply of a request answered without the
\* provider is the canned reply for the branch that the query, the snapshot and
\* the slots of X select, whatever the other sessions hold.
C38_SessionIsolation ==
    [][\A r \in Reqs :
          (Acts(r) /\ reqs'[r].sid # "") =>
              LET X == reqs'[r].sid
              IN  /\ DOMAIN SESS' \subseteq DOMAIN SESS \cup {X}
                  /\ \A Y \in DOMAIN SESS \ {X} :
                        /\ Y \in DOMAIN SESS'
                        /\ SESS'[Y] = SESS[Y]
                        /\ SESS'[Y] # reqs'[r].sess
                        /\ heap'[SESS'[Y]] = heap[SESS[Y]]
                  /\ (Starts(r) /\ reqs'[r].pc = "idle") =>
                        LET sl == UpdateSlots(IF HasLiveSess(X) THEN heap[SESS[X]].slots
                                              ELSE NewSession(now).slots,
                                              reqs'[r].query)
                            br == Branch(reqs'[r].query, KB, sl)
                        IN  /\ reqs'[r].branch = br
                            /\ reqs'[r].response = CannedReply(br, reqs'[r].query, KB)]_vars

\* "s1" holds the Mile End exchange and the track; later, "s1" idle for longer
\* than the timeout, a request for "s2" that needs the track is asked for it:
\* "s1" is still in the map as it was, and "s2" has its own object
C38_Witness ==
    /\ DOMAIN SESS = {"s1", "s2"}
    /\ SESS["s1"] # SESS["s2"]
    /\ heap[SESS["s1"]].slots.trackId = "mile_end"
    /\ Len(heap[SESS["s1"]].turns) = 2
    /\ Expired(heap[SESS["s1"]], now)
    /\ heap[SESS["s2"]].slots.trackId = None
    /\ heap[SESS["s2"]].updatedAt = now
    /\ reqs["r1"].sid = "s2"
    /\ reqs["r1"].response = AskTrackHtml

\* C39: no two chunks of the chunk set have the same id, and no two sources of
\* a response have the same id.
C39_UniqueChunkIds ==
    /\ \A i, j \in 1..Len(DOCS) : DOCS[i].id = DOCS[j].id => i = j
    /\ \A r \in Reqs : \A i, j \in 1..Len(reqs[r].sources) :
          reqs[r].sources[i].id = reqs[r].sources[j].id => i = j

\* the reply of the location topic for the snapshot kb
VenueListing(kb) ==
    enforceGBP(buildTracksHtml(kb) \o <<"<br>", "Which one are you looking at?">>)

\* C40: the location topic is tried first, the ticket-management topic second
\* and the Mile End topic third, and the first that matches answers: a query
\* with a location keyword gets the venue listing whenever the snapshot lists
\* a venue, whatever else it names; when the snapshot lists none the location
\* topic is passed over, and when no topic matches the dialogue policy decides.
C40_FastRouteOrder ==
    [][\A r \in Reqs :
          Upserts(r) =>
              LET q == reqs'[r].query
                  loc == hasAny(q, locationTopics) /\ KB.tracks # <<>>
                  dash == hasAny(q, dashboardTopics)
                  mile == hasAny(q, mileEndTopics)
              IN  /\ loc => /\ reqs'[r].branch = "fast"
                            /\ reqs'[r].response = VenueListing(KB)
                  /\ (~loc /\ dash) => /\ reqs'[r].branch = "fast"
                                       /\ reqs'[r].response = enforceGBP(DashboardHtml)
                  /\ (~loc /\ ~dash /\ mile) =>
                        /\ reqs'[r].branch = "fast"
                        /\ reqs'[r].response = enforceGBP(MileEndHtml)
                  /\ (~loc /\ ~dash /\ ~mile) =>
                        /\ reqs'[r].branch # "fast"
                        /\ reqs'[r].response \notin
                             {VenueListing(KB), enforceGBP(DashboardHtml),
                              enforceGBP(MileEndHtml)}]_vars

\* a query that asks where the Mile End track is, against a snapshot with
\* venues, is answered with the venue listing
C40_Witness ==
    /\ KB.tracks # <<>>
    /\ reqs["r1"].query.has = {"where", "mile end"}
    /\ reqs["r1"].status = 200
    /\ reqs["r1"].response = VenueListing(KB)
    /\ reqs["r1"].response # enforceGBP(MileEndHtml)

====
